---- MODULE Spec2Model ----
(***************************************************************************)
(* MatryoshkaIndexer (antigravity-logicware/src/antigravity/               *)
(* k3_mrl_indexer.py): chunking, incremental dedup, concurrent batch       *)
(* embedding, merge, and snapshot persistence, as a state machine.         *)
(*                                                                         *)
(* A text is a sequence of one-character strings, so that len(), split(),  *)
(* strip() and the regular expressions of the source are computed on the   *)
(* characters and not assumed.                                             *)
(***************************************************************************)
EXTENDS Integers, Sequences, FiniteSets, TLC

(***************************************************************************)
(* Program constants                                                       *)
(***************************************************************************)
BATCH_SIZE == 5
MAX_WORKERS == 4
SAVE_INTERVAL == 20
ChunkLimit == 8000
SnippetLen == 200
\* search: the leading dimensions stage 1 compares, and how many candidates
\* per requested result it keeps
SHORTLIST_DIM == 64
SHORTLIST_FACTOR == 15

(***************************************************************************)
(* Bounds of the model                                                     *)
(***************************************************************************)
\* how many operations the environment performs in all: a run of
\* run_indexing, an edit of a corpus file, a reset of the index (reindex), or
\* the end of the process and the construction of the next one
MaxOps == 3
\* the number of segments of the large bundle
CatalogSize == 21
\* the number of entries of the small stores
SmallSize == 2

(***************************************************************************)
(* Python str helpers                                                      *)
(***************************************************************************)
NL == "\n"

IsSpace(c) == c \in {" ", NL, "\t"}

RECURSIVE lstrip(_)
lstrip(s) == IF s # <<>> /\ IsSpace(Head(s)) THEN lstrip(Tail(s)) ELSE s

RECURSIVE rstrip(_)
rstrip(s) ==
  IF s # <<>> /\ IsSpace(s[Len(s)]) THEN rstrip(SubSeq(s, 1, Len(s) - 1)) ELSE s

strip(s) == rstrip(lstrip(s))

startswith(s, p) == Len(s) >= Len(p) /\ SubSeq(s, 1, Len(p)) = p

endswith(s, p) == Len(s) >= Len(p) /\ SubSeq(s, Len(s) - Len(p) + 1, Len(s)) = p

\* str.split(sep) for a one-character separator
RECURSIVE split(_, _)
split(s, sep) ==
  IF \E i \in 1..Len(s) : s[i] = sep
  THEN LET i == CHOOSE j \in 1..Len(s) :
                   s[j] = sep /\ \A k \in 1..(j - 1) : s[k] # sep
       IN  <<SubSeq(s, 1, i - 1)>> \o split(SubSeq(s, i + 1, Len(s)), sep)
  ELSE <<s>>

\* sep.join(parts)
RECURSIVE join(_, _)
join(sep, parts) ==
  IF parts = <<>> THEN <<>>
  ELSE IF Len(parts) = 1 THEN parts[1]
  ELSE parts[1] \o sep \o join(sep, Tail(parts))

\* s.replace(old, ""): every non-overlapping occurrence, left to right
RECURSIVE remove(_, _)
remove(s, old) ==
  IF Len(s) < Len(old) \/ s = <<>> THEN s
  ELSE IF startswith(s, old) THEN remove(SubSeq(s, Len(old) + 1, Len(s)), old)
  ELSE <<Head(s)>> \o remove(Tail(s), old)

Digits == <<"0", "1", "2", "3", "4", "5", "6", "7", "8", "9">>

\* str(n) for n >= 0
RECURSIVE str_int(_)
str_int(n) ==
  IF n < 10 THEN <<Digits[n + 1]>>
  ELSE str_int(n \div 10) \o <<Digits[(n % 10) + 1]>>

(***************************************************************************)
(* smart_chunk and _text_splitter                                          *)
(***************************************************************************)
MarkerPrefix == <<"-", "-", "-", " ", "F", "I", "L", "E", ":", " ">>
MarkerSuffix == <<" ", "-", "-", "-">>
HeaderTag == <<"-", "-", "-", " ", "F", "I", "L", "E", ":">>
Dashes == <<"-", "-", "-">>
Colons == <<":", ":">>

\* a whole line matched by ^--- FILE: .*? ---$ (re.MULTILINE)
IsMarkerLine(line) ==
  /\ Len(line) >= Len(MarkerPrefix) + Len(MarkerSuffix)
  /\ startswith(line, MarkerPrefix)
  /\ endswith(line, MarkerSuffix)

\* re.split with the capturing group: text, marker, text, marker, ..., text
RECURSIVE re_split_from(_, _, _)
re_split_from(lines, k, acc) ==
  IF k > Len(lines) THEN <<acc>>
  ELSE LET sep == IF k > 1 THEN <<NL>> ELSE <<>>
       IN  IF IsMarkerLine(lines[k])
           THEN <<acc \o sep, lines[k]>> \o re_split_from(lines, k + 1, <<>>)
           ELSE re_split_from(lines, k + 1, acc \o sep \o lines[k])

re_split(raw_text) == re_split_from(split(raw_text, NL), 1, <<>>)

suffix_plain(base_id) == Colons \o base_id

suffix_indexed(base_id, chunk_idx) ==
  Colons \o base_id \o <<"[">> \o str_int(chunk_idx) \o <<"]">>

\* the for loop of _text_splitter without its final flush
RECURSIVE splitter_loop_NoFlush(_, _, _, _, _, _)
splitter_loop_NoFlush(lines, base_id, limit, current_chunk, current_len, chunk_idx) ==
  IF lines = <<>>
  THEN <<>>
  ELSE LET line == Head(lines)
           line_len == Len(line) + 1
           commit == current_len + line_len > limit /\ current_chunk # <<>>
       IN  (IF commit
            THEN << <<join(<<NL>>, current_chunk),
                      suffix_indexed(base_id, chunk_idx)>> >>
            ELSE <<>>)
           \o splitter_loop_NoFlush(Tail(lines), base_id, limit,
                                    (IF commit THEN <<>> ELSE current_chunk) \o <<line>>,
                                    (IF commit THEN 0 ELSE current_len) + line_len,
                                    IF commit THEN chunk_idx + 1 ELSE chunk_idx)

\* the for loop of _text_splitter committing only once the limit is passed
RECURSIVE splitter_loop_Late(_, _, _, _, _, _)
splitter_loop_Late(lines, base_id, limit, current_chunk, current_len, chunk_idx) ==
  IF lines = <<>>
  THEN IF current_chunk # <<>>
       THEN << <<join(<<NL>>, current_chunk), suffix_indexed(base_id, chunk_idx)>> >>
       ELSE <<>>
  ELSE LET line == Head(lines)
           line_len == Len(line) + 1
           commit == current_len > limit /\ current_chunk # <<>>
       IN  (IF commit
            THEN << <<join(<<NL>>, current_chunk),
                      suffix_indexed(base_id, chunk_idx)>> >>
            ELSE <<>>)
           \o splitter_loop_Late(Tail(lines), base_id, limit,
                                 (IF commit THEN <<>> ELSE current_chunk) \o <<line>>,
                                 (IF commit THEN 0 ELSE current_len) + line_len,
                                 IF commit THEN chunk_idx + 1 ELSE chunk_idx)

\* the for loop of _text_splitter and its final flush
RECURSIVE splitter_loop(_, _, _, _, _, _)
splitter_loop(lines, base_id, limit, current_chunk, current_len, chunk_idx) ==
  IF lines = <<>>
  THEN IF current_chunk # <<>>
       THEN << <<join(<<NL>>, current_chunk), suffix_indexed(base_id, chunk_idx)>> >>
       ELSE <<>>
  ELSE LET line == Head(lines)
           line_len == Len(line) + 1
           commit == current_len + line_len > limit /\ current_chunk # <<>>
       IN  (IF commit
            THEN << <<join(<<NL>>, current_chunk),
                      suffix_indexed(base_id, chunk_idx)>> >>
            ELSE <<>>)
           \o splitter_loop(Tail(lines), base_id, limit,
                            (IF commit THEN <<>> ELSE current_chunk) \o <<line>>,
                            (IF commit THEN 0 ELSE current_len) + line_len,
                            IF commit THEN chunk_idx + 1 ELSE chunk_idx)

\* a chunk is <<chunk_text, suffix>>
text_splitter(text, base_id, limit) ==
  IF Len(text) <= limit THEN << <<text, suffix_plain(base_id)>> >>
  ELSE splitter_loop(split(text, NL), base_id, limit, <<>>, 0, 0)

RECURSIVE chunk_parts(_, _, _)
chunk_parts(parts, current_header, limit) ==
  IF parts = <<>> THEN <<>>
  ELSE LET part == strip(Head(parts))
       IN  IF part = <<>> THEN chunk_parts(Tail(parts), current_header, limit)
           ELSE IF startswith(part, HeaderTag)
           THEN chunk_parts(Tail(parts),
                            strip(remove(remove(part, HeaderTag), Dashes)), limit)
           ELSE text_splitter(part, current_header, limit)
                \o chunk_parts(Tail(parts), current_header, limit)

smart_chunk(raw_text, limit) ==
  LET parts == re_split(raw_text)
  IN  IF Len(parts) > 1
      THEN chunk_parts(parts, <<"p", "r", "e", "a", "m", "b", "l", "e">>, limit)
      ELSE text_splitter(raw_text, <<"m", "a", "i", "n">>, limit)

(***************************************************************************)
(* sanitize_content and get_file_hash                                      *)
(***************************************************************************)
NoNewline(s, a, b) == \A k \in a..b : s[k] # NL

\* length of the match of !\[.*?\]\(.*?\) at the start of s, 0 when none
ImageMatchLen(s) ==
  IF Len(s) >= 2 /\ s[1] = "!" /\ s[2] = "["
  THEN LET closes == {j \in 3..(Len(s) - 1) :
                        s[j] = "]" /\ s[j + 1] = "(" /\ NoNewline(s, 3, j - 1)}
       IN  IF closes = {} THEN 0
           ELSE LET j == CHOOSE x \in closes : \A y \in closes : x <= y
                    ends == {k \in (j + 2)..Len(s) :
                               s[k] = ")" /\ NoNewline(s, j + 2, k - 1)}
                IN  IF ends = {} THEN 0
                    ELSE CHOOSE x \in ends : \A y \in ends : x <= y
  ELSE 0

\* re.sub(r"!\[.*?\]\(.*?\)", "", text)
RECURSIVE sub_images(_)
sub_images(s) ==
  IF s = <<>> THEN <<>>
  ELSE LET n == ImageMatchLen(s)
       IN  IF n > 0 THEN sub_images(SubSeq(s, n + 1, Len(s)))
           ELSE <<Head(s)>> \o sub_images(Tail(s))

\* re.sub(r"\s+", " ", text)
RECURSIVE sub_spaces(_)
sub_spaces(s) ==
  IF s = <<>> THEN <<>>
  ELSE IF IsSpace(Head(s)) THEN <<" ">> \o sub_spaces(lstrip(s))
  ELSE <<Head(s)>> \o sub_spaces(Tail(s))

sanitize_content(text) == strip(sub_spaces(sub_images(text)))

\* hashlib.md5(...).hexdigest(): a digest that differs when the text differs
get_file_hash(text) == <<"md5", text>>

(***************************************************************************)
(* The corpus under target_dir and the embedding service                   *)
(***************************************************************************)
PathA == <<"a">>
PathB == <<"b">>

\* walk_files(): the eligible files, in the order os.walk yields them
walk_files == <<PathA, PathB>>

Marker(name) == MarkerPrefix \o name \o MarkerSuffix

Hello == <<"h", "e", "l", "l", "o", " ", "w", "o", "r", "l", "d">>
Bye == <<"b", "y", "e", NL, NL, "n", "o", "w">>
Blank == <<"!", "[", "i", "]", "(", "u", ")", " ", NL>>

\* a bundle of six delimited segments; the name "a" occurs twice
Bundle ==
  Marker(<<"a">>) \o <<NL, "o", "n", "e", NL>>
  \o Marker(<<"b">>) \o <<NL, "t", "w", "o", NL>>
  \o Marker(<<"c">>) \o <<NL, "t", "h", "r", "e", "e", NL>>
  \o Marker(<<"d">>) \o <<NL, "f", "o", "u", "r", NL>>
  \o Marker(<<"e">>) \o <<NL, "f", "i", "v", "e", NL>>
  \o Marker(<<"a">>) \o <<NL, "s", "i", "x">>

\* a bundle of CatalogSize delimited segments named 1, 2, ... with distinct
\* one-line texts: with the hello file, enough chunks to pass SAVE_INTERVAL
RECURSIVE CatalogFrom(_)
CatalogFrom(k) ==
  IF k > CatalogSize THEN <<>>
  ELSE Marker(str_int(k)) \o <<NL, "n">> \o str_int(k) \o <<NL>> \o CatalogFrom(k + 1)

Catalog == CatalogFrom(1)

Contents == {Hello, Bye, Blank, Bundle}

Readable(text) == [readable |-> TRUE, text |-> text]
Unreadable == [readable |-> FALSE, text |-> <<>>]
\* what an edit can leave in a file
FileStates == {Readable(Bye), Readable(Blank), Unreadable}

\* the dimension argument of the constructor: 2 for the first process, either
\* for a later one
Dimensions == {2, 3}

Alphabet ==
  <<"a", "b", "c", "d", "e", "f", "h", "i", "l", "n", "o", "r", "s", "t",
    "u", "v", "w", "x", "y", " ", NL, "!", "[", "]", "(", ")", "-", ":">>

Ord(c) ==
  IF \E i \in 1..Len(Alphabet) : Alphabet[i] = c
  THEN CHOOSE i \in 1..Len(Alphabet) : Alphabet[i] = c
  ELSE 0

RECURSIVE Checksum(_)
Checksum(text) ==
  IF text = <<>> THEN 0 ELSE (Ord(Head(text)) + 3 * Checksum(Tail(text))) % 251

\* a deterministic embedding service: the values it returns for one text
EmbedValues(text, dim) ==
  LET c == Checksum(text)
      n == Len(text)
  IN  [i \in 1..dim |-> ((c * i + n) % 7) - 3]

ndarray(values) == [type |-> "ndarray", values |-> values]

\* what one embed_content call can do with a batch
Outcomes == {"ok", "raise"}

(***************************************************************************)
(* self.index: a dict in insertion order, as a sequence of entries         *)
(***************************************************************************)
Has(idx, key) == \E i \in 1..Len(idx) : idx[i].key = key

Get(idx, key) == idx[CHOOSE i \in 1..Len(idx) : idx[i].key = key]

\* idx[key] = entry
Put(idx, entry) ==
  IF Has(idx, entry.key)
  THEN [i \in 1..Len(idx) |-> IF idx[i].key = entry.key THEN entry ELSE idx[i]]
  ELSE Append(idx, entry)

Keys(idx) == {idx[i].key : i \in 1..Len(idx)}

Entries(idx) == {idx[i] : i \in 1..Len(idx)}

(***************************************************************************)
(* Files on disk: the snapshot (index_file) and its .tmp sibling           *)
(***************************************************************************)
Absent == [kind |-> "absent"]
Partial == [kind |-> "partial"]
Pickle(obj) == [kind |-> "pickle", obj |-> obj]
\* bytes that pickle.load cannot parse
Corrupt == [kind |-> "corrupt"]

(***************************************************************************)
(* Stores a snapshot file can hold, and the queries of mrl_search          *)
(***************************************************************************)
\* the dimension of the process that serves mrl_search: above SHORTLIST_DIM, so
\* that stage 1 and stage 2 of search look at different vectors
WideDimension == 66

\* the first two and the last two values of sixteen stored vectors
StoreSeeds ==
  << <<1, -3, 0, 1>>, <<3, -3, 1, 2>>, <<0, -2, 0, -3>>, <<2, -3, 2, -2>>,
     <<-2, 1, 2, -2>>, <<-2, 0, 3, -2>>, <<-3, 3, 2, -2>>, <<1, 3, -3, -3>>,
     <<-2, 3, 0, -3>>, <<0, 2, 2, 3>>, <<-1, 2, 3, 2>>, <<1, -2, -1, -3>>,
     <<1, 1, -3, 3>>, <<3, -1, -3, -2>>, <<2, -2, -2, -1>>, <<1, 2, 3, -3>> >>

\* a vector of WideDimension values, 0 between its first two and its last two
WideValues(seed) ==
  [i \in 1..WideDimension |->
     IF i <= 2 THEN seed[i]
     ELSE IF i > WideDimension - 2 THEN seed[i - (WideDimension - 4)]
     ELSE 0]

StoreKey(i) == str_int(i) \o Colons \o <<"m", "a", "i", "n">>
StoreText(i) == <<"s">> \o str_int(i)

\* an entry as lines 342-346 store it
StoreEntry(i, values) ==
  [key |-> StoreKey(i),
   vector |-> ndarray(values),
   hash |-> get_file_hash(StoreText(i)),
   snippet |-> StoreText(i)]

WideStore == [i \in 1..Len(StoreSeeds) |-> StoreEntry(i, WideValues(StoreSeeds[i]))]

SmallStore == SubSeq(WideStore, 1, SmallSize)

\* a store indexed by a process of dimension 3
NarrowStore == [i \in 1..SmallSize |-> StoreEntry(i, EmbedValues(StoreText(i), 3))]

\* a store whose vectors differ in length
MixedStore == <<WideStore[1], NarrowStore[2]>>

\* the entries at the positions in L keep their vector as a plain list
Legacy(entries, L) ==
  [i \in 1..Len(entries) |->
     IF i \in L THEN [entries[i] EXCEPT !.vector.type = "list"] ELSE entries[i]]

\* records that lack a field of the expected record
NoHash(e) == [key |-> e.key, vector |-> e.vector, snippet |-> e.snippet]
NoVector(e) == [key |-> e.key, hash |-> e.hash, snippet |-> e.snippet]

\* WideStore with entry 3 equal to entry 13 in the first SHORTLIST_DIM values:
\* for any query the two have the same stage-1 score
TieStore == [WideStore EXCEPT ![3] = StoreEntry(3, WideValues(<<1, 1, 0, -3>>))]

\* what the process can find at index_file when it is constructed
SnapshotFiles ==
  {Absent, Corrupt, Pickle(<<>>), Pickle(WideStore), Pickle(TieStore),
   Pickle(NarrowStore), Pickle(MixedStore),
   Pickle([SmallStore EXCEPT ![1] = NoVector(@)]),
   Pickle([SmallStore EXCEPT ![2] = NoHash(@)])}
  \cup {Pickle(Legacy(SmallStore, L)) : L \in SUBSET (1..SmallSize)}

QueryHello == <<"h", "e", "l", "l", "o">>
QueryTwo == <<"t", "w", "o">>
Queries == {QueryHello, QueryTwo}

\* the top_k argument of a call
TopKs == {0, 1, 2}

(***************************************************************************)
(* State                                                                   *)
(***************************************************************************)
VARIABLES
  files,             \* the corpus: path -> [readable, text]
  snapshot,          \* content of index_file on disk
  temp,              \* content of index_file.with_suffix(".tmp") on disk
  pc,                \* where the main thread is
  ret,               \* where save_index returns to
  dimension,         \* self.dimension
  index,             \* self.index
  _unsaved_changes,  \* self._unsaved_changes
  _matrix_cache,     \* self._matrix_cache
  _paths_cache,      \* self._paths_cache
  tasks,             \* run_indexing: the batches
  futures,           \* run_indexing: future_to_batch, one future per batch
  scan_index,        \* history: self.index as the scan of this run read it
  old_snapshot,      \* history: the snapshot file as save_index found it
  rerun,             \* history: how the last completed run ended, and the one
                     \* file edited since if it ended with every batch embedded
  run_kind,          \* history: rerun as it was when this run began
  search_call,       \* history: the last mrl_search call and what it returned
  split_call,        \* history: the last _text_splitter call and what it returned
  bloom_pc,          \* FederatedBloomFilter: "new" until __init__ has run
  _mock_fallback,    \* FederatedBloomFilter._mock_fallback, with its _data
  redis_filters,     \* the Bloom filters of the Redis server: (key, item) pairs
  bloom_added,       \* history: the (subreddit, item) pairs added with success
  bloom_call,        \* history: the last FederatedBloomFilter call
  clock,             \* int(time.time() * 1000000) as a caller would read it now
  requests,          \* MCPBridge: the send_request calls made so far, each
                     \* with its req_id, its context (event, response) and
                     \* how the call ended
  threads,           \* MCPBridge: where each calling thread is
  _pending_requests, \* MCPBridge._pending_requests: req_id -> context
  bridge_stdin,      \* MCPBridge: lines written to the server, not yet read
  bridge_stdout,     \* MCPBridge: lines written by the server, not yet read
  bridge_process,    \* MCPBridge.process: "running" or "exited"
  io_pc,             \* MCPBridge._io_loop: "running" or "ended"
  _bridges,          \* devtools_adapter._bridges: server name -> MCPBridge
  bridge_objs,       \* the MCPBridge objects get_bridge has constructed
  registry_call,     \* history: the last get_bridge call
  client_pc,         \* MCPServerClient: where its one thread is
  client_module,     \* MCPServerClient: the module it was constructed from
  _process,          \* MCPServerClient._process: "none", "running" or "exited"
  _request_id,       \* MCPServerClient._request_id
  client_stdin,      \* MCPServerClient: lines written to the server, not yet read
  client_stdout,     \* MCPServerClient: lines written by the server, not yet read
  client_call,       \* history: the last _send_request call
  ops                \* operations begun so far (bounds the model)

vars ==
  <<files, snapshot, temp, pc, ret, dimension, index, _unsaved_changes,
    _matrix_cache, _paths_cache, tasks, futures, scan_index, old_snapshot,
    rerun, run_kind, search_call, split_call, ops,
    bloom_pc, _mock_fallback, redis_filters, bloom_added, bloom_call,
    clock, requests, threads, _pending_requests, bridge_stdin, bridge_stdout,
    bridge_process, io_pc, _bridges, bridge_objs, registry_call,
    client_pc, client_module, _process, _request_id, client_stdin,
    client_stdout, client_call>>

memory == <<dimension, index, _unsaved_changes, _matrix_cache, _paths_cache>>
disk == <<snapshot, temp>>
store == <<index, _unsaved_changes, _matrix_cache, _paths_cache>>
run_state == <<tasks, futures, scan_index, run_kind>>

None == [set |-> FALSE, value |-> <<>>]

NoSearch == [called |-> FALSE]

NoSplit == [called |-> FALSE]

\* the variables of MatryoshkaIndexer, its files and its histories
indexer ==
  <<files, snapshot, temp, pc, ret, dimension, index, _unsaved_changes,
    _matrix_cache, _paths_cache, tasks, futures, scan_index, old_snapshot,
    rerun, run_kind, search_call, split_call, ops>>

\* the variables of FederatedBloomFilter and of the Redis server
bloom == <<bloom_pc, _mock_fallback, redis_filters, bloom_added, bloom_call>>

\* the variables of the other modules of the toolbox
bridge ==
  <<clock, requests, threads, _pending_requests, bridge_stdin, bridge_stdout,
    bridge_process, io_pc>>

registry == <<_bridges, bridge_objs, registry_call>>

client ==
  <<client_pc, client_module, _process, _request_id, client_stdin,
    client_stdout, client_call>>

toolbox == <<bloom, bridge, registry, client>>

NoMock == [set |-> FALSE, _data |-> {}]

\* the names get_bridge is called with
ServerNames == {"chrome-devtools-mcp", "notebooklm"}

MaxBridges == 3    \* MCPBridge objects get_bridge constructs in one behaviour

\* a name that is not a key of _bridges, and a call that raised
NoBridge == 0

\* line 261: the registry is empty when the module is imported
RegistryInit ==
  /\ _bridges = [n \in ServerNames |-> NoBridge]
  /\ bridge_objs = <<>>
  /\ registry_call = [op |-> "none"]

MaxRequestId == 3  \* requests one MCPServerClient sends in one behaviour

\* MCPServerClient before its constructor has run; __init__ sets _process to
\* None and _request_id to 0
ClientInit ==
  /\ client_pc = "new"
  /\ client_module = "none"
  /\ _process = "none"
  /\ _request_id = 0
  /\ client_stdin = <<>>
  /\ client_stdout = <<>>
  /\ client_call = [seq |-> 0, method |-> "none", id |-> 0,
                    returned |-> [type |-> "none", id |-> 0, kind |-> "none"]]

\* the threads that call MCPBridge.send_request
Callers == {"t1", "t2"}

MaxRequests == 3   \* send_request calls in one behaviour
MaxClock == 2      \* values the microsecond clock takes
MaxLines == 1      \* lines the server has written that _io_loop has not read

\* "response": None of a context, and a call that has not ended
NoResponse == [kind |-> "none", answers |-> 0]
NoOutcome == [kind |-> "pending", answers |-> 0]

\* a req_id that is not a key of _pending_requests
NoContext == 0

\* MCPBridge.__init__ lines 53-73 and _start_server lines 113-140: the server
\* process and the dispatcher thread are started, nothing is pending
BridgeInit ==
  /\ clock = 1
  /\ requests = <<>>
  /\ threads = [c \in Callers |-> [pc |-> "idle", r |-> 0]]
  /\ _pending_requests = [i \in 1..MaxClock |-> NoContext]
  /\ bridge_stdin = <<>>
  /\ bridge_stdout = <<>>
  /\ bridge_process = "running"
  /\ io_pc = "running"

\* the other modules before any of their constructors has run
ToolboxInit ==
  /\ bloom_pc = "new"
  /\ _mock_fallback = NoMock
  /\ redis_filters = {}
  /\ bloom_added = {}
  /\ bloom_call = [op |-> "none"]
  /\ BridgeInit
  /\ RegistryInit
  /\ ClientInit

SavePcs == {"save_open", "save_dump", "save_unlink", "save_rename", "save_commit"}

(***************************************************************************)
(* __init__ (without its load_index call) and the first corpus             *)
(***************************************************************************)
Init ==
  /\ files = [p \in {PathA, PathB} |->
                IF p = PathA THEN Readable(Bundle) ELSE Readable(Hello)]
  /\ snapshot = Absent
  /\ temp = Absent
  /\ pc = "new"
  /\ ret = "idle"
  /\ dimension = 2
  /\ index = <<>>
  /\ _unsaved_changes = 0
  /\ _matrix_cache = None
  /\ _paths_cache = None
  /\ tasks = <<>>
  /\ futures = <<>>
  /\ scan_index = <<>>
  /\ old_snapshot = Absent
  /\ rerun = "none"
  /\ run_kind = "none"
  /\ search_call = NoSearch
  /\ split_call = NoSplit
  /\ ToolboxInit
  /\ ops = 0

(***************************************************************************)
(* load_index                                                              *)
(***************************************************************************)
\* loaded_index without the conversion of lines 59-60
loaded_index_NoConversion(file) ==
  IF file.kind = "pickle"
  THEN LET obj == file.obj
       IN  IF obj = <<>> THEN obj
           ELSE IF "vector" \notin DOMAIN obj[1] THEN <<>>
           ELSE obj
  ELSE <<>>

\* pickle.load and the legacy check on the first value; <<>> on any exception
loaded_index(file) ==
  IF file.kind = "pickle"
  THEN LET obj == file.obj
       IN  IF obj = <<>> THEN obj
           ELSE IF "vector" \notin DOMAIN obj[1] THEN <<>>
           ELSE IF obj[1].vector.type = "list"
           THEN IF \E i \in 1..Len(obj) : "vector" \notin DOMAIN obj[i] THEN <<>>
                ELSE [i \in 1..Len(obj) |->
                        [obj[i] EXCEPT !.vector = ndarray(obj[i].vector.values)]]
           ELSE obj
  ELSE <<>>

load_index ==
  /\ pc = "new"
  /\ index' = (IF snapshot.kind # "absent" THEN loaded_index(snapshot) ELSE index)
  /\ _matrix_cache' = None
  /\ _paths_cache' = None
  /\ pc' = "idle"
  /\ UNCHANGED <<files, disk, ret, dimension, _unsaved_changes, run_state,
                 old_snapshot, rerun, ops>>
  /\ UNCHANGED <<search_call, split_call, toolbox>>

(***************************************************************************)
(* save_index, one file-system step at a time                              *)
(***************************************************************************)
\* a caller other than run_indexing calls save_index
call_save_index ==
  /\ pc = "idle"
  /\ pc' = "save"
  /\ ret' = "idle"
  /\ UNCHANGED <<files, disk, memory, run_state, old_snapshot, rerun, ops>>
  /\ UNCHANGED <<search_call, split_call, toolbox>>

\* save_index without the dirty check of lines 80-81
save_enter_NoDirtyCheck ==
  /\ pc = "save"
  /\ pc' = "save_open"
  /\ old_snapshot' = snapshot
  /\ UNCHANGED <<files, disk, ret, memory, run_state, rerun, ops>>
  /\ UNCHANGED <<search_call, split_call, toolbox>>

\* lines 80-83: the dirty check
save_enter ==
  /\ pc = "save"
  /\ pc' = (IF _unsaved_changes = 0 THEN ret ELSE "save_open")
  /\ old_snapshot' = (IF _unsaved_changes = 0 THEN old_snapshot ELSE snapshot)
  /\ UNCHANGED <<files, disk, ret, memory, run_state, rerun, ops>>
  /\ UNCHANGED <<search_call, split_call, toolbox>>

\* line 85: open(temp_file, "wb") creates or truncates the temp file
save_open_temp ==
  /\ pc = "save_open"
  /\ temp' = Partial
  /\ pc' = "save_dump"
  /\ UNCHANGED <<files, snapshot, ret, memory, run_state, old_snapshot, rerun,
                 ops>>
  /\ UNCHANGED <<search_call, split_call, toolbox>>

\* line 86: pickle.dump and the close of the with block
save_dump ==
  /\ pc = "save_dump"
  /\ temp' = Pickle(index)
  /\ pc' = "save_unlink"
  /\ UNCHANGED <<files, snapshot, ret, memory, run_state, old_snapshot, rerun,
                 ops>>
  /\ UNCHANGED <<search_call, split_call, toolbox>>

\* lines 89-90
save_unlink ==
  /\ pc = "save_unlink"
  /\ snapshot' = (IF snapshot.kind # "absent" THEN Absent ELSE snapshot)
  /\ pc' = "save_rename"
  /\ UNCHANGED <<files, temp, ret, memory, run_state, old_snapshot, rerun,
                 ops>>
  /\ UNCHANGED <<search_call, split_call, toolbox>>

\* line 91
save_rename ==
  /\ pc = "save_rename"
  /\ snapshot' = temp
  /\ temp' = Absent
  /\ pc' = "save_commit"
  /\ UNCHANGED <<files, ret, memory, run_state, old_snapshot, rerun, ops>>
  /\ UNCHANGED <<search_call, split_call, toolbox>>

\* lines 93-94
save_commit ==
  /\ pc = "save_commit"
  /\ _unsaved_changes' = 0
  /\ pc' = ret
  /\ old_snapshot' = Absent
  /\ UNCHANGED <<files, disk, ret, dimension, index, _matrix_cache, _paths_cache,
                 run_state, rerun, ops>>
  /\ UNCHANGED <<search_call, split_call, toolbox>>

\* save_raise with a handler that also clears the dirty counter
save_raise_Resets ==
  /\ pc \in {"save_open", "save_dump", "save_unlink", "save_rename"}
  /\ pc' = ret
  /\ old_snapshot' = Absent
  /\ _unsaved_changes' = 0
  /\ UNCHANGED <<files, disk, ret, dimension, index, _matrix_cache, _paths_cache,
                 run_state, rerun, ops>>
  /\ UNCHANGED <<search_call, split_call, toolbox>>

\* lines 95-96: the step about to run raises instead; the handler only prints
save_raise ==
  /\ pc \in {"save_open", "save_dump", "save_unlink", "save_rename"}
  /\ pc' = ret
  /\ old_snapshot' = Absent
  /\ UNCHANGED <<files, disk, ret, memory, run_state, rerun, ops>>
  /\ UNCHANGED <<search_call, split_call, toolbox>>

(***************************************************************************)
(* run_indexing: the scan (lines 240-320)                                  *)
(***************************************************************************)
\* IsUpToDate without the comparison of the hashes
IsUpToDate_KeyOnly(idx, full_path, new_hash, dim) ==
  /\ Has(idx, full_path)
  /\ Len(Get(idx, full_path).vector.values) = dim

\* lines 304-307: the chunk is already indexed under this key
IsUpToDate(idx, full_path, new_hash, dim) ==
  /\ Has(idx, full_path)
  /\ Get(idx, full_path).hash = new_hash
  /\ Len(Get(idx, full_path).vector.values) = dim

\* lines 304-306: the subscripts ["hash"] and ["vector"] raise KeyError on a
\* stored record without the field
LookupRaises(idx, full_path, new_hash) ==
  /\ Has(idx, full_path)
  /\ \/ "hash" \notin DOMAIN Get(idx, full_path)
     \/ /\ Get(idx, full_path).hash = new_hash
        /\ "vector" \notin DOMAIN Get(idx, full_path)

\* scan_chunks closing a batch only once it holds more than BATCH_SIZE pairs
RECURSIVE scan_chunks_Over(_, _, _, _, _)
scan_chunks_Over(file_chunks, file_path, idx, dim, q) ==
  IF file_chunks = <<>> THEN q
  ELSE LET clean_text == sanitize_content(Head(file_chunks)[1])
           full_path == file_path \o Head(file_chunks)[2]
           new_hash == get_file_hash(clean_text)
           batch == Append(q.current_batch, <<full_path, clean_text>>)
       IN  IF clean_text = <<>>
           THEN scan_chunks_Over(Tail(file_chunks), file_path, idx, dim, q)
           ELSE IF LookupRaises(idx, full_path, new_hash)
           THEN q
           ELSE IF IsUpToDate(idx, full_path, new_hash, dim)
           THEN scan_chunks_Over(Tail(file_chunks), file_path, idx, dim, q)
           ELSE scan_chunks_Over(Tail(file_chunks), file_path, idx, dim,
                                 IF Len(batch) > BATCH_SIZE
                                 THEN [tasks |-> Append(q.tasks, batch),
                                       current_batch |-> <<>>]
                                 ELSE [q EXCEPT !.current_batch = batch])

\* lines 295-313: q is [tasks, current_batch]; a lookup that raises leaves the
\* loop for the handler of line 315, and the scan goes on with the next file
RECURSIVE scan_chunks(_, _, _, _, _)
scan_chunks(file_chunks, file_path, idx, dim, q) ==
  IF file_chunks = <<>> THEN q
  ELSE LET clean_text == sanitize_content(Head(file_chunks)[1])
           full_path == file_path \o Head(file_chunks)[2]
           new_hash == get_file_hash(clean_text)
           batch == Append(q.current_batch, <<full_path, clean_text>>)
       IN  IF clean_text = <<>>
           THEN scan_chunks(Tail(file_chunks), file_path, idx, dim, q)
           ELSE IF LookupRaises(idx, full_path, new_hash)
           THEN q
           ELSE IF IsUpToDate(idx, full_path, new_hash, dim)
           THEN scan_chunks(Tail(file_chunks), file_path, idx, dim, q)
           ELSE scan_chunks(Tail(file_chunks), file_path, idx, dim,
                            IF Len(batch) >= BATCH_SIZE
                            THEN [tasks |-> Append(q.tasks, batch),
                                  current_batch |-> <<>>]
                            ELSE [q EXCEPT !.current_batch = batch])

\* lines 267-316: a file whose read raises adds nothing
RECURSIVE scan_files(_, _, _, _, _)
scan_files(paths, fs, idx, dim, q) ==
  IF paths = <<>> THEN q
  ELSE scan_files(Tail(paths), fs, idx, dim,
                  IF fs[Head(paths)].readable
                  THEN scan_chunks(smart_chunk(fs[Head(paths)].text, ChunkLimit),
                                   Head(paths), idx, dim, q)
                  ELSE q)

\* lines 247-320, with the flush of the final batch
scan_tasks(paths, fs, idx, dim) ==
  LET q == scan_files(paths, fs, idx, dim, [tasks |-> <<>>, current_batch |-> <<>>])
  IN  IF q.current_batch # <<>> THEN Append(q.tasks, q.current_batch) ELSE q.tasks

run_indexing_scan ==
  /\ pc = "idle"
  /\ ops < MaxOps
  /\ ops' = ops + 1
  /\ tasks' = scan_tasks(walk_files, files, index, dimension)
  /\ scan_index' = index
  /\ run_kind' = rerun
  /\ pc' = "scanned"
  /\ UNCHANGED <<files, disk, ret, memory, futures, old_snapshot, rerun>>
  /\ UNCHANGED <<search_call, split_call, toolbox>>

\* lines 322-324
run_indexing_up_to_date ==
  /\ pc = "scanned"
  /\ tasks = <<>>
  /\ rerun' = "clean"
  /\ scan_index' = <<>>
  /\ run_kind' = "none"
  /\ pc' = "idle"
  /\ UNCHANGED <<files, disk, ret, memory, tasks, futures, old_snapshot, ops>>
  /\ UNCHANGED <<search_call, split_call, toolbox>>

NewFuture == [state |-> "pending", outcome |-> "none", result |-> <<>>,
              consumed |-> FALSE]

\* lines 331-335: every batch is submitted to the executor
run_indexing_submit ==
  /\ pc = "scanned"
  /\ tasks # <<>>
  /\ futures' = [i \in 1..Len(tasks) |-> NewFuture]
  /\ pc' = "merge"
  /\ UNCHANGED <<files, disk, ret, memory, tasks, scan_index, run_kind,
                 old_snapshot, rerun, ops>>
  /\ UNCHANGED <<search_call, split_call, toolbox>>

(***************************************************************************)
(* _embed_batch_worker, run by the pool's threads                          *)
(***************************************************************************)
\* response.embeddings: one vector per text, in order; a short response is
\* missing its last vector
embeddings(texts, outcome, dim) ==
  LET n == IF outcome = "short" THEN Len(texts) - 1 ELSE Len(texts)
  IN  [i \in 1..n |-> ndarray(EmbedValues(texts[i], dim))]

\* batch_results hashing the first text of the batch for every entry
batch_results_FirstHash(batch_data, vectors) ==
  LET n == IF Len(vectors) < Len(batch_data) THEN Len(vectors) ELSE Len(batch_data)
  IN  [i \in 1..n |->
         [key |-> batch_data[i][1],
          vector |-> vectors[i],
          hash |-> get_file_hash(batch_data[1][2]),
          snippet |-> batch_data[i][2]]]

\* lines 162-171: zip(paths, vectors, texts)
batch_results(batch_data, vectors) ==
  LET n == IF Len(vectors) < Len(batch_data) THEN Len(vectors) ELSE Len(batch_data)
  IN  [i \in 1..n |->
         [key |-> batch_data[i][1],
          vector |-> vectors[i],
          hash |-> get_file_hash(batch_data[i][2]),
          snippet |-> SubSeq(batch_data[i][2], 1,
                             IF Len(batch_data[i][2]) < SnippetLen
                             THEN Len(batch_data[i][2]) ELSE SnippetLen)]]

\* lines 154-175: what the worker returns
embed_batch_result(batch_data, outcome, dim) ==
  IF outcome = "raise" THEN <<>>
  ELSE batch_results(batch_data,
                     embeddings([i \in 1..Len(batch_data) |-> batch_data[i][2]],
                                outcome, dim))

\* lines 340-345
RECURSIVE merge_results(_, _)
merge_results(idx, results) ==
  IF results = <<>> THEN idx
  ELSE merge_results(Put(idx, Head(results)), Tail(results))

Running == {i \in 1..Len(futures) : futures[i].state = "running"}

\* a pool thread takes the next queued batch
worker_start(i) ==
  /\ futures[i].state = "pending"
  /\ \A j \in 1..(i - 1) : futures[j].state # "pending"
  /\ Cardinality(Running) < MAX_WORKERS
  /\ futures' = [futures EXCEPT ![i].state = "running"]
  /\ UNCHANGED <<files, disk, pc, ret, memory, tasks, scan_index, run_kind,
                 old_snapshot, rerun, ops>>
  /\ UNCHANGED <<search_call, split_call, toolbox>>

\* embed_batch_worker writing its results into self.index itself
embed_batch_worker_Merging(i, outcome) ==
  /\ futures[i].state = "running"
  /\ futures' = [futures EXCEPT
                   ![i].state = "done",
                   ![i].outcome = outcome,
                   ![i].result = embed_batch_result(tasks[i], outcome, dimension)]
  /\ index' = merge_results(index, embed_batch_result(tasks[i], outcome, dimension))
  /\ UNCHANGED <<files, disk, pc, ret, dimension, _unsaved_changes,
                 _matrix_cache, _paths_cache, tasks, scan_index, run_kind,
                 old_snapshot, rerun, ops>>
  /\ UNCHANGED <<search_call, split_call, toolbox>>

\* the embedding call returns or raises and the worker returns its list
embed_batch_worker(i, outcome) ==
  /\ futures[i].state = "running"
  /\ futures' = [futures EXCEPT
                   ![i].state = "done",
                   ![i].outcome = outcome,
                   ![i].result = embed_batch_result(tasks[i], outcome, dimension)]
  /\ UNCHANGED <<files, disk, pc, ret, memory, tasks, scan_index, run_kind,
                 old_snapshot, rerun, ops>>
  /\ UNCHANGED <<search_call, split_call, toolbox>>

(***************************************************************************)
(* run_indexing: the merge loop (lines 337-356)                            *)
(***************************************************************************)
\* merge_batch with the test of line 352 as > SAVE_INTERVAL
merge_batch_Above(i) ==
  /\ pc = "merge"
  /\ futures[i].state = "done"
  /\ ~futures[i].consumed
  /\ futures' = [futures EXCEPT ![i].consumed = TRUE]
  /\ index' = merge_results(index, futures[i].result)
  /\ _unsaved_changes' = _unsaved_changes + Len(futures[i].result)
  /\ _matrix_cache' = (IF futures[i].result # <<>> THEN None ELSE _matrix_cache)
  /\ _paths_cache' = (IF futures[i].result # <<>> THEN None ELSE _paths_cache)
  /\ pc' = (IF futures[i].result # <<>> /\ _unsaved_changes' > SAVE_INTERVAL
            THEN "save" ELSE "merge")
  /\ ret' = (IF pc' = "save" THEN "merge" ELSE ret)
  /\ UNCHANGED <<files, disk, dimension, tasks, scan_index, run_kind,
                 old_snapshot, rerun, ops>>
  /\ UNCHANGED <<search_call, split_call, toolbox>>

\* merge_batch without the cache invalidation of lines 348-349
merge_batch_KeepsCache(i) ==
  /\ pc = "merge"
  /\ futures[i].state = "done"
  /\ ~futures[i].consumed
  /\ futures' = [futures EXCEPT ![i].consumed = TRUE]
  /\ index' = merge_results(index, futures[i].result)
  /\ _unsaved_changes' = _unsaved_changes + Len(futures[i].result)
  /\ pc' = (IF futures[i].result # <<>> /\ _unsaved_changes' >= SAVE_INTERVAL
            THEN "save" ELSE "merge")
  /\ ret' = (IF pc' = "save" THEN "merge" ELSE ret)
  /\ UNCHANGED <<files, disk, dimension, _matrix_cache, _paths_cache, tasks,
                 scan_index, run_kind, old_snapshot, rerun, ops>>
  /\ UNCHANGED <<search_call, split_call, toolbox>>

\* one iteration of the as_completed loop
merge_batch(i) ==
  /\ pc = "merge"
  /\ futures[i].state = "done"
  /\ ~futures[i].consumed
  /\ futures' = [futures EXCEPT ![i].consumed = TRUE]
  /\ index' = merge_results(index, futures[i].result)
  /\ _unsaved_changes' = _unsaved_changes + Len(futures[i].result)
  /\ _matrix_cache' = (IF futures[i].result # <<>> THEN None ELSE _matrix_cache)
  /\ _paths_cache' = (IF futures[i].result # <<>> THEN None ELSE _paths_cache)
  /\ pc' = (IF futures[i].result # <<>> /\ _unsaved_changes' >= SAVE_INTERVAL
            THEN "save" ELSE "merge")
  /\ ret' = (IF pc' = "save" THEN "merge" ELSE ret)
  /\ UNCHANGED <<files, disk, dimension, tasks, scan_index, run_kind,
                 old_snapshot, rerun, ops>>
  /\ UNCHANGED <<search_call, split_call, toolbox>>

AllConsumed ==
  futures # <<>> /\ \A i \in 1..Len(futures) : futures[i].consumed

AllOk == \A i \in 1..Len(futures) : futures[i].outcome = "ok"

\* run_indexing_finish leaving the loop as soon as one result was consumed
run_indexing_finish_Early ==
  /\ pc = "merge"
  /\ \E i \in 1..Len(futures) : futures[i].consumed
  /\ pc' = "save"
  /\ ret' = "idle"
  /\ rerun' = (IF AllOk THEN "clean" ELSE "dirty")
  /\ tasks' = <<>>
  /\ futures' = <<>>
  /\ scan_index' = <<>>
  /\ run_kind' = "none"
  /\ UNCHANGED <<files, disk, memory, old_snapshot, ops>>
  /\ UNCHANGED <<search_call, split_call, toolbox>>

\* line 355: the loop is over, the executor is shut down, the final save
run_indexing_finish ==
  /\ pc = "merge"
  /\ AllConsumed
  /\ pc' = "save"
  /\ ret' = "idle"
  /\ rerun' = (IF AllOk THEN "clean" ELSE "dirty")
  /\ tasks' = <<>>
  /\ futures' = <<>>
  /\ scan_index' = <<>>
  /\ run_kind' = "none"
  /\ UNCHANGED <<files, disk, memory, old_snapshot, ops>>
  /\ UNCHANGED <<search_call, split_call, toolbox>>

(***************************************************************************)
(* The environment                                                         *)
(***************************************************************************)
\* a file of the corpus is rewritten, or becomes unreadable, between runs
edit_file(p, f) ==
  /\ pc = "idle"
  /\ ops < MaxOps
  /\ files[p] # f
  /\ files' = [files EXCEPT ![p] = f]
  /\ ops' = ops + 1
  /\ rerun' = (IF rerun = "clean"
               THEN (IF p = PathA THEN "edited_a" ELSE "edited_b")
               ELSE "none")
  /\ UNCHANGED <<disk, pc, ret, memory, run_state, old_snapshot>>
  /\ UNCHANGED <<search_call, split_call, toolbox>>

\* __main__ line 476: indexer.index = {}
reindex_reset ==
  /\ pc = "idle"
  /\ ops < MaxOps
  /\ index' = <<>>
  /\ ops' = ops + 1
  /\ rerun' = "none"
  /\ UNCHANGED <<files, disk, pc, ret, dimension, _unsaved_changes,
                 _matrix_cache, _paths_cache, run_state, old_snapshot>>
  /\ UNCHANGED <<search_call, split_call, toolbox>>

\* the process ends (a crash, a kill, or a normal exit) and a new one is
\* constructed: lines 36-45, before its load_index call
restart(dim) ==
  /\ ops < MaxOps
  /\ ops' = ops + 1
  /\ dimension' = dim
  /\ index' = <<>>
  /\ _unsaved_changes' = 0
  /\ _matrix_cache' = None
  /\ _paths_cache' = None
  /\ tasks' = <<>>
  /\ futures' = <<>>
  /\ scan_index' = <<>>
  /\ run_kind' = "none"
  /\ rerun' = "none"
  /\ pc' = "new"
  /\ ret' = "idle"
  /\ old_snapshot' = Absent
  /\ UNCHANGED <<files, disk>>
  /\ search_call' = NoSearch
  /\ UNCHANGED <<split_call, toolbox>>

(***************************************************************************)
(* search (lines 358-451) and the mrl_search tool of server.py             *)
(***************************************************************************)
Min(a, b) == IF a < b THEN a ELSE b

\* seq[:n] for n >= 0
Take(seq, n) == SubSeq(seq, 1, Min(n, Len(seq)))

RECURSIVE dot_from(_, _, _)
dot_from(a, b, i) ==
  IF i > Len(a) THEN 0 ELSE a[i] * b[i] + dot_from(a, b, i + 1)

\* np.dot of two vectors of one length
np_dot(a, b) == dot_from(a, b, 1)

\* the cosine of a row and the query, kept exact: dot / sqrt(row * query),
\* which the 1e-9 of the code turns into 0 when a norm is 0
cosine(row, q) ==
  [dot |-> np_dot(row, q), row |-> np_dot(row, row), query |-> np_dot(q, q)]

SignedSquare(s) == (IF s.dot < 0 THEN -1 ELSE 1) * s.dot * s.dot

RowNorm(s) == IF s.row = 0 THEN 1 ELSE s.row

\* s < t for two scores against one query
ScoreLess(s, t) == SignedSquare(s) * RowNorm(t) < SignedSquare(t) * RowNorm(s)

\* np.argsort(scores)[::-1] over the positions in S: every order of the
\* positions by descending score; the sort promises nothing about equal scores
RECURSIVE argsort_reversed_of(_, _)
argsort_reversed_of(scores, S) ==
  IF S = {} THEN {<<>>}
  ELSE UNION {{<<i>> \o rest : rest \in argsort_reversed_of(scores, S \ {i})} :
              i \in {j \in S : \A k \in S : ~ScoreLess(scores[j], scores[k])}}

argsort_reversed(scores) == argsort_reversed_of(scores, DOMAIN scores)

\* str.replace("\n", " ")
replace_newlines(s) == [i \in 1..Len(s) |-> IF s[i] = NL THEN " " ELSE s[i]]

\* lines 420-442: the loop over final_order; an exception ends the loop and the
\* results gathered so far are returned
RECURSIVE results_loop(_, _, _, _, _)
results_loop(idx, paths, candidate_idxs, scores_full, final_order) ==
  IF final_order = <<>> THEN <<>>
  ELSE LET path == paths[candidate_idxs[Head(final_order)]]
       IN  IF ~Has(idx, path) \/ "snippet" \notin DOMAIN Get(idx, path)
           THEN <<>>
           ELSE <<[path |-> path,
                   score |-> scores_full[Head(final_order)],
                   snippet |-> replace_newlines(Get(idx, path).snippet)]>>
                \o results_loop(idx, paths, candidate_idxs, scores_full,
                                Tail(final_order))

\* what one call of search leaves behind: the list it returns, whether it
\* called the embedding service, the keys stage 1 shortlisted, the two caches
SearchReturn(results, embedded, candidates, matrix_cache, paths_cache) ==
  [results |-> results, embedded |-> embedded, candidates |-> candidates,
   matrix_cache |-> matrix_cache, paths_cache |-> paths_cache]

Cached(value) == [set |-> TRUE, value |-> value]

\* rerank without the slice [:top_k] of line 414
rerank_NoCut(idx, paths, matrix, q_vec, top_k, order_short) ==
  LET k_cand == Min(top_k * SHORTLIST_FACTOR, Len(paths))
      candidate_idxs == Take(order_short, k_cand)
      scores_full == [i \in 1..Len(candidate_idxs) |->
                        cosine(matrix[candidate_idxs[i]], q_vec)]
  IN  {SearchReturn(results_loop(idx, paths, candidate_idxs, scores_full,
                                 final_order),
                    TRUE,
                    [i \in 1..Len(candidate_idxs) |-> paths[candidate_idxs[i]]],
                    Cached(matrix), Cached(paths)) :
       final_order \in argsort_reversed(scores_full)}

\* rerank with stage 2 ranking every row instead of the stage-1 shortlist
rerank_NoFunnel(idx, paths, matrix, q_vec, top_k, order_short) ==
  LET k_cand == Min(top_k * SHORTLIST_FACTOR, Len(paths))
      candidate_idxs == Take(order_short, k_cand)
      scores_full == [i \in 1..Len(order_short) |->
                        cosine(matrix[order_short[i]], q_vec)]
  IN  {SearchReturn(results_loop(idx, paths, order_short, scores_full,
                                 Take(final_order, top_k)),
                    TRUE,
                    [i \in 1..Len(candidate_idxs) |-> paths[candidate_idxs[i]]],
                    Cached(matrix), Cached(paths)) :
       final_order \in argsort_reversed(scores_full)}

\* rerank returning one result fewer than asked
rerank_OffByOne(idx, paths, matrix, q_vec, top_k, order_short) ==
  LET k_cand == Min(top_k * SHORTLIST_FACTOR, Len(paths))
      candidate_idxs == Take(order_short, k_cand)
      scores_full == [i \in 1..Len(candidate_idxs) |->
                        cosine(matrix[candidate_idxs[i]], q_vec)]
  IN  {SearchReturn(results_loop(idx, paths, candidate_idxs, scores_full,
                                 Take(final_order, IF top_k = 0 THEN 0 ELSE top_k - 1)),
                    TRUE,
                    [i \in 1..Len(candidate_idxs) |-> paths[candidate_idxs[i]]],
                    Cached(matrix), Cached(paths)) :
       final_order \in argsort_reversed(scores_full)}

\* rerank with a shortlist of top_k candidates, without SHORTLIST_FACTOR
rerank_NoFactor(idx, paths, matrix, q_vec, top_k, order_short) ==
  LET k_cand == Min(top_k, Len(paths))
      candidate_idxs == Take(order_short, k_cand)
      scores_full == [i \in 1..Len(candidate_idxs) |->
                        cosine(matrix[candidate_idxs[i]], q_vec)]
  IN  {SearchReturn(results_loop(idx, paths, candidate_idxs, scores_full,
                                 Take(final_order, top_k)),
                    TRUE,
                    [i \in 1..Len(candidate_idxs) |-> paths[candidate_idxs[i]]],
                    Cached(matrix), Cached(paths)) :
       final_order \in argsort_reversed(scores_full)}

\* lines 399-442, for one order of stage 1 and one order of stage 2
rerank(idx, paths, matrix, q_vec, top_k, order_short) ==
  LET k_cand == Min(top_k * SHORTLIST_FACTOR, Len(paths))
      candidate_idxs == Take(order_short, k_cand)
      scores_full == [i \in 1..Len(candidate_idxs) |->
                        cosine(matrix[candidate_idxs[i]], q_vec)]
  IN  {SearchReturn(results_loop(idx, paths, candidate_idxs, scores_full,
                                 Take(final_order, top_k)),
                    TRUE,
                    [i \in 1..Len(candidate_idxs) |-> paths[candidate_idxs[i]]],
                    Cached(matrix), Cached(paths)) :
       final_order \in argsort_reversed(scores_full)}

\* lines 369-442: the store is not empty
search_body(idx, matrix_cache, paths_cache, dim, query, top_k, outcome) ==
  IF outcome = "raise"
  THEN {SearchReturn(<<>>, TRUE, <<>>, matrix_cache, paths_cache)}
  ELSE LET q_vec == EmbedValues(query, dim)
           rebuild == ~matrix_cache.set \/ ~paths_cache.set
           paths == IF rebuild THEN [i \in 1..Len(idx) |-> idx[i].key]
                    ELSE paths_cache.value
           stackable == \A i \in 1..Len(idx) :
                          Len(idx[i].vector.values) = Len(idx[1].vector.values)
           matrix == IF rebuild THEN [i \in 1..Len(idx) |-> idx[i].vector.values]
                     ELSE matrix_cache.value
           scores_short == [i \in 1..Len(matrix) |->
                              cosine(Take(matrix[i], SHORTLIST_DIM),
                                     Take(q_vec, SHORTLIST_DIM))]
       IN  IF rebuild /\ ~stackable
           THEN \* np.stack raises after line 381 has set the paths cache
                {SearchReturn(<<>>, TRUE, <<>>, matrix_cache, Cached(paths))}
           ELSE IF \/ Len(Take(matrix[1], SHORTLIST_DIM))
                        # Len(Take(q_vec, SHORTLIST_DIM))
                   \/ Len(matrix[1]) # Len(q_vec)
           THEN \* np.dot raises on the shapes, in stage 1 or in stage 2
                {SearchReturn(<<>>, TRUE, <<>>, Cached(matrix), Cached(paths))}
           ELSE UNION {rerank(idx, paths, matrix, q_vec, top_k, order_short) :
                       order_short \in argsort_reversed(scores_short)}

\* search with the embedding call made before the test of lines 365-367
search_EmbedFirst(idx, matrix_cache, paths_cache, dim, query, top_k, outcome) ==
  IF idx = <<>>
  THEN {SearchReturn(<<>>, TRUE, <<>>, matrix_cache, paths_cache)}
  ELSE search_body(idx, matrix_cache, paths_cache, dim, query, top_k, outcome)

\* lines 365-451: every list search can return from this store, these caches
\* and this answer of the embedding service, with the caches it leaves
search(idx, matrix_cache, paths_cache, dim, query, top_k, outcome) ==
  IF idx = <<>>
  THEN {SearchReturn(<<>>, FALSE, <<>>, matrix_cache, paths_cache)}
  ELSE search_body(idx, matrix_cache, paths_cache, dim, query, top_k, outcome)

\* server.py lines 134-145; the keys of the model have no directory part
mrl_search_reply(results) ==
  IF results = <<>> THEN [text |-> "No matching records found."]
  ELSE [formatted |-> [i \in 1..Len(results) |->
                         <<results[i].score, results[i].path, results[i].snippet>>]]

\* server.py lines 106-147 on the indexer it constructed
mrl_search(query, top_k, outcome) ==
  /\ pc = "idle"
  /\ \E r \in search(index, _matrix_cache, _paths_cache, dimension, query, top_k,
                    outcome) :
       /\ _matrix_cache' = r.matrix_cache
       /\ _paths_cache' = r.paths_cache
       /\ search_call' = [called |-> TRUE,
                          query |-> query,
                          top_k |-> top_k,
                          embedded |-> r.embedded,
                          failed |-> r.embedded /\ outcome = "raise",
                          candidates |-> r.candidates,
                          results |-> r.results,
                          reply |-> mrl_search_reply(r.results)]
  /\ UNCHANGED <<files, disk, pc, ret, dimension, index, _unsaved_changes,
                 run_state, old_snapshot, rerun, split_call, ops, toolbox>>

Next ==
  \/ load_index
  \/ call_save_index
  \/ save_enter
  \/ save_open_temp
  \/ save_dump
  \/ save_unlink
  \/ save_rename
  \/ save_commit
  \/ save_raise
  \/ run_indexing_scan
  \/ run_indexing_up_to_date
  \/ run_indexing_submit
  \/ \E i \in 1..Len(futures) : worker_start(i)
  \/ \E i \in 1..Len(futures) : \E o \in Outcomes : embed_batch_worker(i, o)
  \/ \E i \in 1..Len(futures) : merge_batch(i)
  \/ run_indexing_finish
  \/ \E p \in DOMAIN files : \E f \in FileStates : edit_file(p, f)
  \/ reindex_reset
  \/ \E d \in Dimensions : restart(d)

Spec == Init /\ [][Next]_vars

(***************************************************************************)
(* One process indexing the large bundle: the periodic checkpoint.  Every   *)
(* embedding call succeeds here (Spec covers the calls that raise), the     *)
(* writes of save_index may fail.                                          *)
(***************************************************************************)
InitCatalog ==
  /\ files = [p \in {PathA, PathB} |->
                IF p = PathA THEN Readable(Catalog) ELSE Readable(Hello)]
  /\ snapshot = Absent
  /\ temp = Absent
  /\ pc = "new"
  /\ ret = "idle"
  /\ dimension = 2
  /\ index = <<>>
  /\ _unsaved_changes = 0
  /\ _matrix_cache = None
  /\ _paths_cache = None
  /\ tasks = <<>>
  /\ futures = <<>>
  /\ scan_index = <<>>
  /\ old_snapshot = Absent
  /\ rerun = "none"
  /\ run_kind = "none"
  /\ search_call = NoSearch
  /\ split_call = NoSplit
  /\ ToolboxInit
  /\ ops = 0

NextCatalog ==
  \/ load_index
  \/ save_enter
  \/ save_open_temp
  \/ save_dump
  \/ save_unlink
  \/ save_rename
  \/ save_commit
  \/ save_raise
  \/ run_indexing_scan
  \/ run_indexing_up_to_date
  \/ run_indexing_submit
  \/ \E i \in 1..Len(futures) : worker_start(i)
  \/ \E i \in 1..Len(futures) : embed_batch_worker(i, "ok")
  \/ \E i \in 1..Len(futures) : merge_batch(i)
  \/ run_indexing_finish

CatalogSpec == InitCatalog /\ [][NextCatalog]_vars

(***************************************************************************)
(* The process behind the mrl_search tool: constructed over whatever file  *)
(* is at index_file, then searched                                         *)
(***************************************************************************)
InitSearch ==
  /\ files = [p \in {PathA, PathB} |->
                IF p = PathA THEN Readable(Bundle) ELSE Readable(Hello)]
  /\ snapshot \in SnapshotFiles
  /\ temp = Absent
  /\ pc = "new"
  /\ ret = "idle"
  /\ dimension = WideDimension
  /\ index = <<>>
  /\ _unsaved_changes = 0
  /\ _matrix_cache = None
  /\ _paths_cache = None
  /\ tasks = <<>>
  /\ futures = <<>>
  /\ scan_index = <<>>
  /\ old_snapshot = Absent
  /\ rerun = "none"
  /\ run_kind = "none"
  /\ search_call = NoSearch
  /\ split_call = NoSplit
  /\ ToolboxInit
  /\ ops = 0

NextSearch ==
  \/ load_index
  \/ \E q \in Queries : \E k \in TopKs : \E o \in Outcomes : mrl_search(q, k, o)
  \/ reindex_reset

SearchSpec == InitSearch /\ [][NextSearch]_vars

(***************************************************************************)
(* One process constructed over a snapshot that already holds keys of the  *)
(* corpus, then indexing; the embedding service may also answer a batch    *)
(* with one vector too few.  The writes of save_index succeed here.        *)
(***************************************************************************)
\* the entry lines 342-346 store for the segment `name` of file p with text
CorpusEntry(p, name, text) ==
  [key |-> p \o suffix_plain(name),
   vector |-> ndarray(EmbedValues(text, 2)),
   hash |-> get_file_hash(text),
   snippet |-> text]

\* the entries of segments b and e of the bundle in PathA
PartStore ==
  <<CorpusEntry(PathA, <<"b">>, <<"t", "w", "o">>),
    CorpusEntry(PathA, <<"e">>, <<"f", "i", "v", "e">>)>>

ScanSnapshots ==
  {Absent, Pickle(PartStore),
   Pickle([PartStore EXCEPT ![2] = NoHash(@)]),
   Pickle([PartStore EXCEPT ![2] = NoVector(@)])}

ServiceOutcomes == {"ok", "raise", "short"}

InitScan ==
  /\ files \in {[p \in {PathA, PathB} |-> IF p = PathA THEN Readable(Bundle) ELSE f] :
                 f \in {Readable(Hello), Readable(Bundle), Unreadable}}
  /\ snapshot \in ScanSnapshots
  /\ temp = Absent
  /\ pc = "new"
  /\ ret = "idle"
  /\ dimension = 2
  /\ index = <<>>
  /\ _unsaved_changes = 0
  /\ _matrix_cache = None
  /\ _paths_cache = None
  /\ tasks = <<>>
  /\ futures = <<>>
  /\ scan_index = <<>>
  /\ old_snapshot = Absent
  /\ rerun = "none"
  /\ run_kind = "none"
  /\ search_call = NoSearch
  /\ split_call = NoSplit
  /\ ToolboxInit
  /\ ops = 0

NextScan ==
  \/ load_index
  \/ save_enter
  \/ save_open_temp
  \/ save_dump
  \/ save_unlink
  \/ save_rename
  \/ save_commit
  \/ run_indexing_scan
  \/ run_indexing_up_to_date
  \/ run_indexing_submit
  \/ \E i \in 1..Len(futures) : worker_start(i)
  \/ \E i \in 1..Len(futures), o \in ServiceOutcomes : embed_batch_worker(i, o)
  \/ \E i \in 1..Len(futures) : merge_batch(i)
  \/ run_indexing_finish

ScanSpec == InitScan /\ [][NextScan]_vars

\* the steps of a run in progress: the pool threads and the calling thread
RunStep ==
  \/ save_enter
  \/ save_open_temp
  \/ save_dump
  \/ save_unlink
  \/ save_rename
  \/ save_commit
  \/ run_indexing_up_to_date
  \/ run_indexing_submit
  \/ \E i \in 1..Len(futures) : worker_start(i)
  \/ \E i \in 1..Len(futures), o \in ServiceOutcomes : embed_batch_worker(i, o)
  \/ \E i \in 1..Len(futures) : merge_batch(i)
  \/ run_indexing_finish

\* the process of ScanSpec over the bundle and the hello file
InitLive ==
  /\ InitScan
  /\ files[PathB] = Readable(Hello)

\* every embedding call returns or raises and every thread is scheduled
LiveScanSpec == InitLive /\ [][NextScan]_vars /\ WF_vars(RunStep)

(***************************************************************************)
(* One indexer used for loads, resets, runs and searches, one after another *)
(***************************************************************************)
NextSession ==
  \/ load_index
  \/ save_enter
  \/ save_open_temp
  \/ save_dump
  \/ save_unlink
  \/ save_rename
  \/ save_commit
  \/ run_indexing_scan
  \/ run_indexing_up_to_date
  \/ run_indexing_submit
  \/ \E i \in 1..Len(futures) : worker_start(i)
  \/ \E i \in 1..Len(futures), o \in Outcomes : embed_batch_worker(i, o)
  \/ \E i \in 1..Len(futures) : merge_batch(i)
  \/ run_indexing_finish
  \/ reindex_reset
  \/ \E p \in DOMAIN files : \E f \in FileStates : edit_file(p, f)
  \/ mrl_search(QueryHello, 2, "ok")

SessionSpec == Init /\ [][NextSession]_vars

(***************************************************************************)
(* _text_splitter on its own: one segment text and one size limit per call *)
(***************************************************************************)
MaxText == 5
MaxLimit == 4

SegmentChars == {"x", NL}
SegmentTexts == UNION {[1..n -> SegmentChars] : n \in 0..MaxText}
SizeLimits == 0..MaxLimit
SegmentId == <<"m", "a", "i", "n">>

\* self._text_splitter(text, "main", limit)
call_text_splitter(text, limit) ==
  /\ split_call' = [called |-> TRUE,
                    text |-> text,
                    limit |-> limit,
                    chunks |-> text_splitter(text, SegmentId, limit)]
  /\ UNCHANGED <<files, disk, pc, ret, memory, run_state, old_snapshot, rerun,
                 search_call, ops, toolbox>>

NextSplit == \E text \in SegmentTexts, limit \in SizeLimits :
               call_text_splitter(text, limit)

SplitSpec == Init /\ [][NextSplit]_vars

(***************************************************************************)
(* federated_bloom.py: FederatedBloomFilter, MockBloomFilter and the Redis *)
(* server behind self._client                                              *)
(***************************************************************************)
Subreddits == {<<"a">>, <<"a", ":", "b">>}
BloomItems == {<<"c">>, <<"b", ":", "c">>}

\* what __init__ finds: no URL, the redis module missing, the connection or
\* the ping failing, or a server that answers
InitOutcomes == {"no_url", "import_error", "connect_failed", "connected"}

\* what one execute_command can do
CommandOutcomes == {"ok", "raise"}

\* MockBloomFilter lines 22 and 27: f"{subreddit}:{item}"
mock_key(subreddit, item) == subreddit \o <<":">> \o item

\* lines 69-71: f"fdn:{subreddit}:badactors"
_get_key(subreddit) ==
  <<"f", "d", "n", ":">> \o subreddit
    \o <<":", "b", "a", "d", "a", "c", "t", "o", "r", "s">>

\* lines 46-67
FederatedBloomFilter_init(outcome) ==
  /\ bloom_pc = "new"
  /\ bloom_pc' = "ready"
  /\ _mock_fallback' = (IF outcome = "connected" THEN NoMock
                        ELSE [set |-> TRUE, _data |-> {}])
  /\ UNCHANGED <<redis_filters, bloom_added, bloom_call>>
  /\ UNCHANGED <<indexer, bridge, registry, client>>

\* lines 73-95, MockBloomFilter.add lines 21-24
add(subreddit, item, command) ==
  /\ bloom_pc = "ready"
  /\ IF _mock_fallback.set
     THEN /\ _mock_fallback' =
               [_mock_fallback EXCEPT
                  !._data = @ \cup {mock_key(subreddit, item)}]
          /\ bloom_added' = bloom_added \cup {<<subreddit, item>>}
          /\ bloom_call' = [op |-> "add", subreddit |-> subreddit,
                            item |-> item, result |-> TRUE]
          /\ UNCHANGED redis_filters
     ELSE IF command = "ok"
     THEN /\ redis_filters' = redis_filters \cup {<<_get_key(subreddit), item>>}
          /\ bloom_added' = bloom_added \cup {<<subreddit, item>>}
          /\ bloom_call' = [op |-> "add", subreddit |-> subreddit,
                            item |-> item, result |-> TRUE]
          /\ UNCHANGED _mock_fallback
     ELSE /\ bloom_call' = [op |-> "add", subreddit |-> subreddit,
                            item |-> item, result |-> FALSE]
          /\ UNCHANGED <<_mock_fallback, redis_filters, bloom_added>>
  /\ UNCHANGED bloom_pc
  /\ UNCHANGED <<indexer, bridge, registry, client>>

\* BF.EXISTS: 1 for an item that was added to the filter of the key; for any
\* other item 0, or 1 when the filter gives a false positive
bf_exists(key, item, false_positive) ==
  IF <<key, item>> \in redis_filters \/ false_positive THEN 1 ELSE 0

\* lines 97-121, MockBloomFilter.check lines 26-28
check(subreddit, item, command, false_positive) ==
  /\ bloom_pc = "ready"
  /\ bloom_call' =
       [op |-> "check", subreddit |-> subreddit, item |-> item,
        result |-> IF _mock_fallback.set
                   THEN mock_key(subreddit, item) \in _mock_fallback._data
                   ELSE IF command = "ok"
                   THEN bf_exists(_get_key(subreddit), item, false_positive) = 1
                   ELSE FALSE]
  /\ UNCHANGED <<bloom_pc, _mock_fallback, redis_filters, bloom_added>>
  /\ UNCHANGED <<indexer, bridge, registry, client>>

\* lines 123-147
bulk_add(subreddit, items, command) ==
  /\ bloom_pc = "ready"
  /\ IF _mock_fallback.set
     THEN /\ _mock_fallback' =
               [_mock_fallback EXCEPT
                  !._data = @ \cup {mock_key(subreddit, items[k]) :
                                     k \in 1..Len(items)}]
          /\ bloom_added' = bloom_added
                              \cup {<<subreddit, items[k]>> : k \in 1..Len(items)}
          /\ bloom_call' = [op |-> "bulk_add", subreddit |-> subreddit,
                            item |-> items, result |-> Len(items)]
          /\ UNCHANGED redis_filters
     ELSE IF command = "ok"
     THEN /\ redis_filters' = redis_filters
                                \cup {<<_get_key(subreddit), items[k]>> :
                                        k \in 1..Len(items)}
          /\ bloom_added' = bloom_added
                              \cup {<<subreddit, items[k]>> : k \in 1..Len(items)}
          /\ bloom_call' = [op |-> "bulk_add", subreddit |-> subreddit,
                            item |-> items, result |-> Len(items)]
          /\ UNCHANGED _mock_fallback
     ELSE /\ bloom_call' = [op |-> "bulk_add", subreddit |-> subreddit,
                            item |-> items, result |-> 0]
          /\ UNCHANGED <<_mock_fallback, redis_filters, bloom_added>>
  /\ UNCHANGED bloom_pc
  /\ UNCHANGED <<indexer, bridge, registry, client>>

\* the item lists bulk_add is called with
ItemLists == {<<>>} \cup {<<i>> : i \in BloomItems}
               \cup {<<i, j>> : i \in BloomItems, j \in BloomItems}

NextBloom ==
  \/ \E o \in InitOutcomes : FederatedBloomFilter_init(o)
  \/ \E sub \in Subreddits, i \in BloomItems, c \in CommandOutcomes : add(sub, i, c)
  \/ \E sub \in Subreddits, i \in BloomItems, c \in CommandOutcomes,
        fp \in BOOLEAN : check(sub, i, c, fp)
  \/ \E sub \in Subreddits, l \in ItemLists, c \in CommandOutcomes :
        bulk_add(sub, l, c)

BloomSpec == Init /\ [][NextBloom]_vars

(***************************************************************************)
(* devtools_adapter.py: MCPBridge, its calling threads, its dispatcher     *)
(* thread and the server process at the other end of the pipes             *)
(***************************************************************************)
\* time passes: the next read of time.time() gives a later microsecond
tick ==
  /\ clock < MaxClock
  /\ clock' = clock + 1
  /\ UNCHANGED <<requests, threads, _pending_requests, bridge_stdin,
                 bridge_stdout, bridge_process, io_pc>>
  /\ UNCHANGED <<indexer, bloom, registry, client>>

End(r, kind, answers) ==
  [requests EXCEPT ![r].outcome = [kind |-> kind, answers |-> answers]]

\* lines 188-192: self.process is set, the id is read from the clock and the
\* event is created, outside the lock
send_request_stamp(c) ==
  /\ threads[c].pc = "idle"
  /\ Len(requests) < MaxRequests
  /\ requests' = Append(requests,
                        [caller |-> c, req_id |-> clock, event |-> FALSE,
                         response |-> NoResponse, outcome |-> NoOutcome])
  /\ threads' = [threads EXCEPT ![c] = [pc |-> "stamped", r |-> Len(requests) + 1]]
  /\ UNCHANGED <<clock, _pending_requests, bridge_stdin, bridge_stdout,
                 bridge_process, io_pc>>
  /\ UNCHANGED <<indexer, bloom, registry, client>>

\* lines 194-206, under self.lock: the context is stored under the id, then
\* the payload is written; the write raises BrokenPipeError when the server
\* has exited, and send_request raises RuntimeError
send_request_write(c) ==
  /\ threads[c].pc = "stamped"
  /\ LET r == threads[c].r
         req_id == requests[r].req_id
     IN /\ _pending_requests' = [_pending_requests EXCEPT ![req_id] = r]
        /\ IF bridge_process = "running"
           THEN /\ bridge_stdin' = Append(bridge_stdin, [id |-> req_id, r |-> r])
                /\ threads' = [threads EXCEPT ![c].pc = "waiting"]
                /\ UNCHANGED requests
           ELSE /\ requests' = End(r, "broken_pipe", 0)
                /\ threads' = [threads EXCEPT ![c] = [pc |-> "idle", r |-> 0]]
                /\ UNCHANGED bridge_stdin
  /\ UNCHANGED <<clock, bridge_stdout, bridge_process, io_pc>>
  /\ UNCHANGED <<indexer, bloom, registry, client>>

\* lines 208-211: the event was not set within the timeout; the id is popped
\* under the lock and TimeoutError is raised
send_request_timeout(c) ==
  /\ threads[c].pc = "waiting"
  /\ LET r == threads[c].r
     IN /\ ~requests[r].event
        /\ _pending_requests' =
             [_pending_requests EXCEPT ![requests[r].req_id] = NoContext]
        /\ requests' = End(r, "timeout", 0)
  /\ threads' = [threads EXCEPT ![c] = [pc |-> "idle", r |-> 0]]
  /\ UNCHANGED <<clock, bridge_stdin, bridge_stdout, bridge_process, io_pc>>
  /\ UNCHANGED <<indexer, bloom, registry, client>>

\* lines 213-221: the event is set; the context found under the id is popped
\* (KeyError when there is none) and its response is returned or raised
\* (AttributeError when it is None)
send_request_return(c) ==
  /\ threads[c].pc = "waiting"
  /\ LET r == threads[c].r
         req_id == requests[r].req_id
         ctx == _pending_requests[req_id]
     IN /\ requests[r].event
        /\ _pending_requests' = [_pending_requests EXCEPT ![req_id] = NoContext]
        /\ requests' =
             IF ctx = NoContext THEN End(r, "key_error", 0)
             ELSE IF requests[ctx].response = NoResponse
             THEN End(r, "attribute_error", 0)
             ELSE End(r, requests[ctx].response.kind,
                      requests[ctx].response.answers)
  /\ threads' = [threads EXCEPT ![c] = [pc |-> "idle", r |-> 0]]
  /\ UNCHANGED <<clock, bridge_stdin, bridge_stdout, bridge_process, io_pc>>
  /\ UNCHANGED <<indexer, bloom, registry, client>>

\* the server reads one request and writes its response, a result or an
\* error, with the id of the request
server_respond(kind) ==
  /\ bridge_process = "running"
  /\ bridge_stdin # <<>>
  /\ Len(bridge_stdout) < MaxLines
  /\ bridge_stdout' =
       Append(bridge_stdout,
              [type |-> "response", id |-> Head(bridge_stdin).id,
               answers |-> Head(bridge_stdin).r, kind |-> kind])
  /\ bridge_stdin' = Tail(bridge_stdin)
  /\ UNCHANGED <<clock, requests, threads, _pending_requests, bridge_process,
                 io_pc>>
  /\ UNCHANGED <<indexer, bloom, registry, client>>

\* the server writes a notification, a line that is not JSON or a blank line
server_print(type) ==
  /\ bridge_process = "running"
  /\ Len(bridge_stdout) < MaxLines
  /\ bridge_stdout' =
       Append(bridge_stdout,
              [type |-> type, id |-> 0, answers |-> 0, kind |-> "none"])
  /\ UNCHANGED <<clock, requests, threads, _pending_requests, bridge_stdin,
                 bridge_process, io_pc>>
  /\ UNCHANGED <<indexer, bloom, registry, client>>

\* the server process ends
server_exit ==
  /\ bridge_process = "running"
  /\ bridge_process' = "exited"
  /\ UNCHANGED <<clock, requests, threads, _pending_requests, bridge_stdin,
                 bridge_stdout, io_pc>>
  /\ UNCHANGED <<indexer, bloom, registry, client>>

\* lines 144-177, one turn of the loop: a response whose id is pending is
\* stored in the context found under that id and its event is set; any other
\* line is dropped; the loop ends at the end of the stream
_io_loop ==
  /\ io_pc = "running"
  /\ IF bridge_stdout = <<>>
     THEN /\ bridge_process = "exited"
          /\ io_pc' = "ended"
          /\ UNCHANGED <<requests, bridge_stdout>>
     ELSE LET payload == Head(bridge_stdout)
              routed == /\ payload.type = "response"
                        /\ _pending_requests[payload.id] # NoContext
          IN /\ bridge_stdout' = Tail(bridge_stdout)
             /\ requests' =
                  IF routed
                  THEN [requests EXCEPT
                          ![_pending_requests[payload.id]].response =
                              [kind |-> payload.kind, answers |-> payload.answers],
                          ![_pending_requests[payload.id]].event = TRUE]
                  ELSE requests
             /\ UNCHANGED io_pc
  /\ UNCHANGED <<clock, threads, _pending_requests, bridge_stdin, bridge_process>>
  /\ UNCHANGED <<indexer, bloom, registry, client>>

ResponseKinds == {"result", "error"}
PrintedLines == {"notification", "log", "blank"}

NextBridge ==
  \/ tick
  \/ \E c \in Callers : send_request_stamp(c)
  \/ \E c \in Callers : send_request_write(c)
  \/ \E c \in Callers : send_request_timeout(c)
  \/ \E c \in Callers : send_request_return(c)
  \/ \E k \in ResponseKinds : server_respond(k)
  \/ \E t \in PrintedLines : server_print(t)
  \/ server_exit
  \/ _io_loop

BridgeSpec == Init /\ [][NextBridge]_vars

(***************************************************************************)
(* devtools_adapter.py: the registry of bridges behind get_bridge          *)
(***************************************************************************)
\* Popen of the MCPBridge constructor starts the server, or raises
StartOutcomes == {"ok", "raise"}

\* lines 285-297: the package the bridge of a name is constructed with
server_package(server_name) ==
  IF server_name = "notebooklm" THEN "notebooklm-mcp" ELSE "chrome-devtools-mcp"

\* MCPBridge.is_alive, lines 227-229
is_alive(b) == bridge_objs[b].process = "running"

\* MCPBridge.teardown, lines 241-248: the shutdown event is set and the
\* process is terminated, which changes nothing for one that has exited
teardown(b) ==
  [bridge_objs[b] EXCEPT !._shutdown_event = TRUE,
                         !.process = IF @ = "running" THEN "terminated" ELSE @]

\* the process of bridge b ends
process_exit(b) ==
  /\ b \in 1..Len(bridge_objs)
  /\ bridge_objs[b].process = "running"
  /\ bridge_objs' = [bridge_objs EXCEPT ![b].process = "exited"]
  /\ UNCHANGED <<_bridges, registry_call>>
  /\ UNCHANGED <<indexer, bloom, bridge, client>>

\* get_bridge that returns the cached bridge without asking is_alive
get_bridge_NoCheck(server_name, start) ==
  LET cached == _bridges[server_name]
  IN /\ cached = NoBridge => Len(bridge_objs) < MaxBridges
     /\ IF cached # NoBridge
        THEN /\ registry_call' =
                  [op |-> "get_bridge", server_name |-> server_name,
                   cached |-> cached, returned |-> cached, started |-> FALSE]
             /\ UNCHANGED <<_bridges, bridge_objs>>
        ELSE IF start = "ok"
        THEN /\ bridge_objs' =
                  Append(bridge_objs,
                         [server_package |-> server_package(server_name),
                          process |-> "running", _shutdown_event |-> FALSE])
             /\ _bridges' = [_bridges EXCEPT ![server_name] = Len(bridge_objs) + 1]
             /\ registry_call' =
                  [op |-> "get_bridge", server_name |-> server_name,
                   cached |-> cached, returned |-> Len(bridge_objs) + 1,
                   started |-> TRUE]
        ELSE /\ registry_call' =
                  [op |-> "get_bridge", server_name |-> server_name,
                   cached |-> cached, returned |-> NoBridge, started |-> FALSE]
             /\ UNCHANGED <<_bridges, bridge_objs>>
     /\ UNCHANGED <<indexer, bloom, bridge, client>>

\* lines 264-301: a cached bridge that is alive is returned; a dead one is
\* torn down and deleted; a bridge is then constructed and stored unless its
\* constructor raises, which get_bridge lets through
get_bridge(server_name, start) ==
  LET cached == _bridges[server_name]
      dead == cached # NoBridge /\ ~is_alive(cached)
      torn == IF dead THEN [bridge_objs EXCEPT ![cached] = teardown(cached)]
              ELSE bridge_objs
  IN /\ (cached = NoBridge \/ dead) => Len(bridge_objs) < MaxBridges
     /\ IF cached # NoBridge /\ is_alive(cached)
        THEN /\ registry_call' =
                  [op |-> "get_bridge", server_name |-> server_name,
                   cached |-> cached, returned |-> cached, started |-> FALSE]
             /\ UNCHANGED <<_bridges, bridge_objs>>
        ELSE IF start = "ok"
        THEN /\ bridge_objs' =
                  Append(torn,
                         [server_package |-> server_package(server_name),
                          process |-> "running", _shutdown_event |-> FALSE])
             /\ _bridges' = [_bridges EXCEPT ![server_name] = Len(bridge_objs) + 1]
             /\ registry_call' =
                  [op |-> "get_bridge", server_name |-> server_name,
                   cached |-> cached, returned |-> Len(bridge_objs) + 1,
                   started |-> TRUE]
        ELSE /\ bridge_objs' = torn
             /\ _bridges' = [_bridges EXCEPT ![server_name] = NoBridge]
             /\ registry_call' =
                  [op |-> "get_bridge", server_name |-> server_name,
                   cached |-> cached, returned |-> NoBridge, started |-> FALSE]
     /\ UNCHANGED <<indexer, bloom, bridge, client>>

NextRegistry ==
  \/ \E n \in ServerNames, o \in StartOutcomes : get_bridge(n, o)
  \/ \E b \in 1..MaxBridges : process_exit(b)

RegistrySpec == Init /\ [][NextRegistry]_vars

(***************************************************************************)
(* dynamic_mcp_client.py and bridge.py: MCPServerClient, one thread, and   *)
(* the server process at the other end of its pipes                        *)
(***************************************************************************)
\* the two modules that define MCPServerClient
ClientModules == {"dynamic_mcp_client", "bridge"}

\* the methods _send_request is called for: initialize (bridge.py lines
\* 70-81) sends a notification after its request, the others do not
Methods == {"initialize", "tools/list"}

\* what a finished call returned: the line it read, or the exception it caught
NoLine == [type |-> "none", id |-> 0, kind |-> "none"]
Raised == [type |-> "exception", id |-> 0, kind |-> "none"]

\* dynamic_mcp_client.py lines 43-53, bridge.py lines 43-47
MCPServerClient_init(module) ==
  /\ client_pc = "new"
  /\ client_pc' = "idle"
  /\ client_module' = module
  /\ UNCHANGED <<_process, _request_id, client_stdin, client_stdout, client_call>>
  /\ UNCHANGED <<indexer, bloom, bridge, registry>>

\* _start_process as _send_request calls it: dynamic_mcp_client.py (lines 83
\* and 64) starts a process when there is none or when it has exited,
\* bridge.py (lines 100-101 and 51) only when there is none
starts_process ==
  \/ _process = "none"
  \/ client_module = "dynamic_mcp_client" /\ _process = "exited"

\* dynamic_mcp_client.py lines 83-96, bridge.py lines 100-116: the process is
\* started if needed, the id is incremented and the request is written; a
\* write to a process that has exited raises and the call returns the error
_send_request_write(method) ==
  /\ client_pc = "idle"
  /\ _request_id < MaxRequestId
  /\ _request_id' = _request_id + 1
  /\ LET running == starts_process \/ _process = "running"
         stdin == IF starts_process THEN <<>> ELSE client_stdin
         stdout == IF starts_process THEN <<>> ELSE client_stdout
     IN IF running
        THEN /\ _process' = "running"
             /\ client_stdin' =
                  Append(stdin, [type |-> "request", id |-> _request_id + 1])
             /\ client_stdout' = stdout
             /\ client_pc' = "reading"
             /\ client_call' = [seq |-> client_call.seq + 1, method |-> method,
                               id |-> _request_id + 1, returned |-> NoLine]
        ELSE /\ client_pc' = "idle"
             /\ client_call' = [seq |-> client_call.seq + 1, method |-> method,
                               id |-> _request_id + 1, returned |-> Raised]
             /\ UNCHANGED <<_process, client_stdin, client_stdout>>
  /\ UNCHANGED client_module
  /\ UNCHANGED <<indexer, bloom, bridge, registry>>

\* dynamic_mcp_client.py lines 99-112, bridge.py lines 119-134: the next line
\* of stdout is read and parsed, whatever it is; at the end of the stream the
\* call returns an error; initialize then goes on to its notification
_send_request_read ==
  /\ client_pc = "reading"
  /\ IF client_stdout = <<>>
     THEN /\ _process = "exited"
          /\ client_call' = [client_call EXCEPT !.returned = Raised]
          /\ UNCHANGED client_stdout
     ELSE /\ client_call' = [client_call EXCEPT !.returned = Head(client_stdout)]
          /\ client_stdout' = Tail(client_stdout)
  /\ client_pc' = IF client_module = "bridge" /\ client_call.method = "initialize"
                  THEN "notify" ELSE "idle"
  /\ UNCHANGED <<client_module, _process, _request_id, client_stdin>>
  /\ UNCHANGED <<indexer, bloom, bridge, registry>>

\* bridge.py lines 83-93, called at line 80: a notification is written, with
\* no id, and nothing is read; a write to a process that has exited raises
_send_notification ==
  /\ client_pc = "notify"
  /\ client_pc' = "idle"
  /\ client_stdin' =
       IF _process = "running"
       THEN Append(client_stdin, [type |-> "notification", id |-> 0])
       ELSE client_stdin
  /\ UNCHANGED <<client_module, _process, _request_id, client_stdout, client_call>>
  /\ UNCHANGED <<indexer, bloom, bridge, registry>>

\* the server reads one line: it answers a request with a result or an error
\* under the id of the request, and a notification with nothing
client_server_respond(kind) ==
  /\ _process = "running"
  /\ client_stdin # <<>>
  /\ Len(client_stdout) < MaxLines
  /\ client_stdin' = Tail(client_stdin)
  /\ client_stdout' =
       IF Head(client_stdin).type = "request"
       THEN Append(client_stdout,
                   [type |-> "response", id |-> Head(client_stdin).id,
                    kind |-> kind])
       ELSE client_stdout
  /\ UNCHANGED <<client_pc, client_module, _process, _request_id, client_call>>
  /\ UNCHANGED <<indexer, bloom, bridge, registry>>

\* the server writes a notification, a line that is not JSON or a blank line
client_server_print(type) ==
  /\ _process = "running"
  /\ Len(client_stdout) < MaxLines
  /\ client_stdout' =
       Append(client_stdout, [type |-> type, id |-> 0, kind |-> "none"])
  /\ UNCHANGED <<client_pc, client_module, _process, _request_id, client_stdin,
                 client_call>>
  /\ UNCHANGED <<indexer, bloom, bridge, registry>>

\* the server process ends
client_server_exit ==
  /\ _process = "running"
  /\ _process' = "exited"
  /\ UNCHANGED <<client_pc, client_module, _request_id, client_stdin,
                 client_stdout, client_call>>
  /\ UNCHANGED <<indexer, bloom, bridge, registry>>

NextClient ==
  \/ \E m \in ClientModules : MCPServerClient_init(m)
  \/ \E m \in Methods : _send_request_write(m)
  \/ _send_request_read
  \/ _send_notification
  \/ \E k \in ResponseKinds : client_server_respond(k)
  \/ \E t \in PrintedLines : client_server_print(t)
  \/ client_server_exit

ClientSpec == Init /\ [][NextClient]_vars

(***************************************************************************)
(* Properties                                                              *)
(***************************************************************************)
RECURSIVE Flatten(_)
Flatten(batches) ==
  IF batches = <<>> THEN <<>> ELSE Head(batches) \o Flatten(Tail(batches))

\* the (key, text) pairs the scan put in a batch
Enqueued == {Flatten(tasks)[i] : i \in 1..Len(Flatten(tasks))}

\* the chunks of the readable files with non-empty sanitized text, as
\* (key, sanitized text) pairs
ScannedPairs ==
  UNION {LET chunks == smart_chunk(files[p].text, ChunkLimit)
         IN  {<<p \o chunks[i][2], sanitize_content(chunks[i][1])>> :
                i \in {j \in 1..Len(chunks) : sanitize_content(chunks[j][1]) # <<>>}}
         : p \in {q \in DOMAIN files : files[q].readable}}

\* C1: a second run_indexing over an unchanged file set, on the store a first
\* run completed on with every batch embedded, enqueues no chunk (and so
\* issues no embedding call and leaves the snapshot as it is).
C1_RerunEnqueuesNothing ==
  (pc = "scanned" /\ run_kind = "clean") => tasks = <<>>

\* C2: while save_index runs, the snapshot path holds the complete previous
\* snapshot or the complete new one; and once a complete snapshot exists on
\* disk, one exists at all later times.
C2_AtomicReplacement ==
  [][/\ pc' \in SavePcs => snapshot' \in {old_snapshot', Pickle(index')}
     /\ snapshot.kind = "pickle" => snapshot'.kind = "pickle"]_vars

\* C3: when save_index is interrupted (the process ends, or a step raises)
\* after the temp file is written and before the rename is done, the previous
\* snapshot is still on disk, unchanged and loadable.
C3_InterruptedSaveKeepsOld ==
  [][(/\ pc \in {"save_unlink", "save_rename"}
      /\ pc' \notin SavePcs
      /\ old_snapshot.kind = "pickle")
     => (snapshot' = old_snapshot
         /\ loaded_index(snapshot') = old_snapshot.obj)]_vars

\* the sanitized chunk texts of every content a corpus file can have
CleanTexts ==
  UNION {LET chunks == smart_chunk(c, ChunkLimit)
         IN  {sanitize_content(chunks[i][1]) : i \in 1..Len(chunks)}
         : c \in Contents}

\* C4: every entry of the store has the hash of the sanitized chunk text whose
\* embedding is the entry's vector.
C4_HashInvariant ==
  \A e \in Entries(index) :
    \E t \in CleanTexts :
      /\ e.hash = get_file_hash(t)
      /\ e.vector.values = EmbedValues(t, Len(e.vector.values))

\* a run over a store that had entries has merged one batch and lost another
C4_Witness ==
  /\ pc = "merge"
  /\ AllConsumed
  /\ scan_index # <<>>
  /\ index # scan_index
  /\ \E i \in 1..Len(futures) : futures[i].outcome = "raise"

\* C5: after load_index, and at every later moment, every entry of the store
\* has a vector of exactly the configured dimension.
C5_DimensionInvariant ==
  pc # "new" => \A e \in Entries(index) : Len(e.vector.values) = dimension

\* C6: after the scan, a chunk with non-empty sanitized text is left out of
\* the batches exactly when the store has an entry for its key with the hash
\* of that text and a vector of the configured dimension.
C6_DedupRule ==
  pc = "scanned" =>
    /\ Enqueued \subseteq ScannedPairs
    /\ \A c \in ScannedPairs :
         (c \notin Enqueued) <=>
           \E e \in Entries(index) :
             /\ e.key = c[1]
             /\ e.hash = get_file_hash(c[2])
             /\ Len(e.vector.values) = dimension

\* a scan that skipped one chunk and enqueued another
C6_Witness ==
  /\ pc = "scanned"
  /\ tasks # <<>>
  /\ ScannedPairs \ Enqueued # {}

\* C7: when a batch's embedding call raised, each of its keys is, at the end
\* of the merge loop, absent as before the run or holds its prior entry, and
\* every entry returned by another batch has been merged.
C7_BatchFailureIsolation ==
  (pc = "merge" /\ AllConsumed) =>
    \A i \in 1..Len(futures) :
      IF futures[i].outcome = "raise"
      THEN \A k \in 1..Len(tasks[i]) :
             LET key == tasks[i][k][1]
             IN  /\ Has(index, key) <=> Has(scan_index, key)
                 /\ Has(index, key) => Get(index, key) = Get(scan_index, key)
      ELSE \A k \in 1..Len(futures[i].result) :
             Has(index, futures[i].result[k].key)

\* the results of the batches merged in the order of submission
RECURSIVE merge_in_order(_, _, _)
merge_in_order(idx, futs, i) ==
  IF i > Len(futs) THEN idx
  ELSE merge_in_order(merge_results(idx, futs[i].result), futs, i + 1)

\* C8: the content of the store at the end of the merge loop does not depend
\* on the order in which the batches completed: it is what merging the same
\* results in the order of submission gives.
C8_OrderIndependent ==
  (pc = "merge" /\ AllConsumed) =>
    Entries(index) = Entries(merge_in_order(scan_index, futures, 1))

\* C9: the (key, text) pairs enqueued by one scan have pairwise distinct keys.
C9_KeysUnique ==
  pc = "scanned" =>
    \A i, j \in 1..Len(Flatten(tasks)) :
      Flatten(tasks)[i][1] = Flatten(tasks)[j][1] => i = j

\* C10: a step of a worker thread leaves the store, the dirty counter and the
\* search cache as they are; while a run has futures, every write to them is
\* made by the merge loop of the main thread (or by the save it calls).
C10_SingleMergingConsumer ==
  [][/\ ((\E i \in 1..Len(futures) : worker_start(i))
         \/ (\E i \in 1..Len(futures) : \E o \in Outcomes : embed_batch_worker(i, o)))
        => UNCHANGED store
     /\ (futures # <<>> /\ store' # store)
        => ((\E i \in 1..Len(futures) : merge_batch(i))
            \/ save_commit
            \/ (\E d \in Dimensions : restart(d)))]_vars

\* a worker has returned a non-empty result that the main thread has not
\* merged yet
C10_Witness ==
  \E i \in 1..Len(futures) :
    /\ futures[i].state = "done"
    /\ ~futures[i].consumed
    /\ futures[i].result # <<>>
    /\ ~Has(index, futures[i].result[1].key)

\* C11: a save_index whose write fails returns to its caller without raising,
\* leaves the store and the dirty counter as they were (the counter still
\* positive), and a save_index entered with a positive counter goes on to open
\* the temp file: the write is attempted again.
C11_FailedCheckpointRetried ==
  [][ /\ (/\ pc \in {"save_open", "save_dump", "save_unlink", "save_rename"}
          /\ pc' \notin SavePcs
          /\ pc' # "new")
         => /\ pc' = ret
            /\ UNCHANGED <<index, _unsaved_changes, _matrix_cache, _paths_cache>>
            /\ _unsaved_changes' > 0
      /\ (pc = "save" /\ _unsaved_changes > 0 /\ pc' \notin {"save", "new"})
         => pc' = "save_open"
    ]_vars

\* save_index has returned to the caller with changes still unsaved: only a
\* failed write leaves the program there
C11_Witness ==
  /\ pc = "idle"
  /\ _unsaved_changes > 0
  /\ index # <<>>

\* C12: a save_index entered with the dirty counter at 0 (nothing merged since
\* the last successful save) returns at once: the temp file, the snapshot file
\* and the in-memory state stay as they are, and the steps that touch the file
\* system are only ever reached with a positive counter.
C12_CleanSaveNoOp ==
  [][ /\ (pc = "save" /\ _unsaved_changes = 0 /\ pc' \notin {"save", "new"})
         => /\ pc' = ret
            /\ UNCHANGED <<snapshot, temp, dimension, index, _unsaved_changes,
                           _matrix_cache, _paths_cache>>
      /\ (pc' \in SavePcs \ {"save_commit"}) => _unsaved_changes' > 0
    ]_vars

\* save_index is entered with nothing to save while a snapshot is on disk
C12_Witness ==
  /\ pc = "save"
  /\ _unsaved_changes = 0
  /\ snapshot.kind = "pickle"

\* C15: a run_indexing call returns only through the save_index of line 355:
\* from the scan or the merge loop the main thread never goes straight back
\* to the caller.
C15_FinalCheckpoint ==
  [][ (pc \in {"scanned", "merge"} /\ pc' # "new")
        => pc' \in {"scanned", "merge", "save"} ]_vars

\* C16 as stated: entries are merged one at a time and the checkpoint is
\* triggered when the count of entries merged since the last successful
\* checkpoint reaches SAVE_INTERVAL, so a merge that begins below the interval
\* never carries the count beyond it.
C16_CheckpointAtInterval ==
  [][ (_unsaved_changes < SAVE_INTERVAL /\ _unsaved_changes' > _unsaved_changes)
        => _unsaved_changes' <= SAVE_INTERVAL ]_vars

\* C16, amended: entries are merged only by the merge loop, and whenever the
\* entries of a batch have been merged and the count of entries merged since
\* the last successful checkpoint is at least SAVE_INTERVAL, save_index is
\* called before the entries of another batch are merged.
C16_CheckpointAfterBatch ==
  [][ (_unsaved_changes' > _unsaved_changes)
        => /\ pc = "merge"
           /\ (_unsaved_changes' >= SAVE_INTERVAL)
                => (pc' = "save" /\ ret' = "merge") ]_vars

\* the periodic checkpoint is triggered with the count already past the interval
C16_Witness ==
  /\ pc = "save"
  /\ ret = "merge"
  /\ _unsaved_changes > SAVE_INTERVAL

\* a record with exactly the fields lines 342-346 store
ExpectedRecord(e) == DOMAIN e = {"key", "vector", "hash", "snippet"}

\* the file unpickles to a mapping of keys to such records
ExpectedMapping(file) ==
  /\ file.kind = "pickle"
  /\ \A i \in 1..Len(file.obj) : ExpectedRecord(file.obj[i])

\* the entries with every vector in the typed-array form, values unchanged
Typed(entries) ==
  [i \in 1..Len(entries) |-> [entries[i] EXCEPT !.vector.type = "ndarray"]]

\* C13: load_index always returns, and when the snapshot file is absent,
\* unparseable or does not decode to the expected mapping of keys to records,
\* the store after the load is empty.
C13_LoadNeverFails ==
  [][ (pc = "new" /\ pc' = "idle" /\ ~ExpectedMapping(snapshot))
        => index' = <<>> ]_vars

\* C14 as stated: after a load of a well-formed snapshot every entry has its
\* vector in the typed-array form with the values of the file, whichever
\* entries of the file were in the legacy list form.
C14_LegacyUpconversion ==
  [][ (pc = "new" /\ pc' = "idle" /\ ExpectedMapping(snapshot))
        => index' = Typed(snapshot.obj) ]_vars

\* C14, amended: after a load of a well-formed snapshot whose first entry is
\* in the legacy list form every entry is in the typed-array form with the
\* values of the file, whichever later entries were legacy; a snapshot whose
\* first entry is typed is loaded as it is stored.
C14_LegacyFirstUpconversion ==
  [][ (pc = "new" /\ pc' = "idle" /\ ExpectedMapping(snapshot))
        => index' = (IF snapshot.obj # <<>> /\ snapshot.obj[1].vector.type = "list"
                     THEN Typed(snapshot.obj)
                     ELSE snapshot.obj) ]_vars

\* a snapshot with a legacy first entry and a typed later one has been loaded
C14_Witness ==
  /\ pc = "idle"
  /\ ExpectedMapping(snapshot)
  /\ snapshot.obj # <<>>
  /\ snapshot.obj[1].vector.type = "list"
  /\ \E i \in 1..Len(snapshot.obj) : snapshot.obj[i].vector.type = "ndarray"
  /\ index = Typed(snapshot.obj)

\* C17: when the embedding of the query fails, what search returns is not the
\* empty list and the mrl_search tool does not reply that nothing matched.
C17_QueryFailureSurfaced ==
  (search_call.called /\ search_call.failed)
    => /\ search_call.results # <<>>
       /\ search_call.reply # [text |-> "No matching records found."]

\* C18: a search on an empty store returns the empty list, does not call the
\* embedding service and leaves the caches as they are, whatever they hold.
C18_EmptyStoreSearch ==
  [][ (pc = "idle" /\ index = <<>> /\ search_call' # search_call
         /\ search_call'.called)
        => /\ search_call'.results = <<>>
           /\ ~search_call'.embedded
           /\ UNCHANGED <<_matrix_cache, _paths_cache>> ]_vars

\* the empty store was searched while the caches still held an earlier matrix
C18_Witness ==
  /\ search_call.called
  /\ ~search_call.embedded
  /\ index = <<>>
  /\ _matrix_cache.set
  /\ _paths_cache.set

\* C19: the list search returns has at most top_k results and no result has
\* a higher score than the one before it.
C19_ResultShape ==
  search_call.called
    => /\ Len(search_call.results) <= search_call.top_k
       /\ \A i \in 1..(Len(search_call.results) - 1) :
            ~ScoreLess(search_call.results[i].score,
                       search_call.results[i + 1].score)

\* a store larger than top_k was searched and top_k results of different
\* scores came back
C19_Witness ==
  /\ search_call.called
  /\ search_call.top_k = 2
  /\ Len(search_call.results) = 2
  /\ Len(index) > 2
  /\ ScoreLess(search_call.results[2].score, search_call.results[1].score)

\* C20: every result of a search has a key of the stage-1 shortlist, and
\* carries the full-dimension score of that key's vector against the query
\* and that key's snippet.
C20_FunnelSubset ==
  [][ (pc = "idle" /\ search_call' # search_call /\ search_call'.called)
        => \A q_vec \in {Take(EmbedValues(search_call'.query, dimension), dimension)} :
           \A i \in 1..Len(search_call'.results) :
             LET r == search_call'.results[i]
             IN  /\ \E j \in 1..Len(search_call'.candidates) :
                      search_call'.candidates[j] = r.path
                 /\ Has(index, r.path)
                 /\ r.score = cosine(Get(index, r.path).vector.values, q_vec)
                 /\ r.snippet = Get(index, r.path).snippet ]_vars

\* a search returned a result after stage 1 had left entries of the store out
C20_Witness ==
  /\ search_call.called
  /\ search_call.results # <<>>
  /\ Len(search_call.candidates) < Len(index)

\* a step of mrl_search that leaves a new call behind
SearchStep ==
  /\ pc = "idle"
  /\ search_call' # search_call
  /\ search_call'.called

\* a search over a non-empty store of expected records whose vectors all have
\* the dimension of the process, with the query embedded
Served ==
  /\ SearchStep
  /\ ~search_call'.failed
  /\ index # <<>>
  /\ \A i \in 1..Len(index) :
       /\ ExpectedRecord(index[i])
       /\ Len(index[i].vector.values) = dimension

\* the stage-1 scores of the entries from position i on, in store order
RECURSIVE StageOneScores(_, _, _)
StageOneScores(idx, q_short, i) ==
  IF i > Len(idx) THEN <<>>
  ELSE <<cosine(Take(idx[i].vector.values, SHORTLIST_DIM), q_short)>>
       \o StageOneScores(idx, q_short, i + 1)

ScoresShort(query) ==
  StageOneScores(index, Take(EmbedValues(query, dimension), SHORTLIST_DIM), 1)

\* the positions of the store whose keys stage 1 shortlisted
Shortlisted(call) ==
  {i \in 1..Len(index) :
     \E j \in 1..Len(call.candidates) : call.candidates[j] = index[i].key}

\* C21: of two entries with equal stage-1 scores, the later one in the key
\* list is shortlisted only if the earlier one is.
C21_StageOneTieBreak ==
  [][ Served
        => \A scores \in {ScoresShort(search_call'.query)} :
           \A chosen \in {Shortlisted(search_call')} :
             \A j \in chosen : \A i \in 1..(j - 1) :
               (~ScoreLess(scores[i], scores[j]) /\ ~ScoreLess(scores[j], scores[i]))
                 => i \in chosen ]_vars

\* C22: a served search with 1 <= top_k <= n returns exactly top_k results.
C22_FullResultCount ==
  [][ (Served /\ 1 <= search_call'.top_k /\ search_call'.top_k <= Len(index))
        => Len(search_call'.results) = search_call'.top_k ]_vars

\* a search of a store of more than top_k entries returned top_k = 2 results
C22_Witness ==
  /\ search_call.called
  /\ ~search_call.failed
  /\ search_call.top_k = 2
  /\ Len(index) > 2
  /\ \A i \in 1..Len(index) : Len(index[i].vector.values) = dimension
  /\ Len(search_call.results) = 2

\* C29: stage 1 of a served search shortlists min(top_k * 15, n) different
\* positions, and no position left out has a strictly higher stage-1 score
\* than a shortlisted one.
C29_StageOneSelection ==
  [][ Served
        => \A scores \in {ScoresShort(search_call'.query)} :
           \A chosen \in {Shortlisted(search_call')} :
           \A k_cand \in {Min(search_call'.top_k * SHORTLIST_FACTOR, Len(index))} :
             /\ Len(search_call'.candidates) = k_cand
             /\ Cardinality(chosen) = k_cand
             /\ \A i \in (1..Len(index)) \ chosen : \A j \in chosen :
                  ~ScoreLess(scores[j], scores[i]) ]_vars

\* stage 1 of a search has shortlisted 15 of the 16 entries of the store
C29_Witness ==
  /\ search_call.called
  /\ search_call.top_k = 1
  /\ Len(search_call.candidates) = SHORTLIST_FACTOR
  /\ Len(index) > SHORTLIST_FACTOR

\* C26: whenever both derived caches are set, they are the ordered key list
\* and the stacked vectors of the current store.
C26_CacheCoherent ==
  (_matrix_cache.set /\ _paths_cache.set)
    => /\ _paths_cache.value = [i \in 1..Len(index) |-> index[i].key]
       /\ _matrix_cache.value = [i \in 1..Len(index) |-> index[i].vector.values]

\* the texts of the chunks of a _text_splitter call, in order
ChunkTexts(chunks) == [i \in 1..Len(chunks) |-> chunks[i][1]]

\* the lines of the chunks, chunk after chunk
ChunkLines(chunks) == Flatten([i \in 1..Len(chunks) |-> split(chunks[i][1], NL)])

\* C24: the chunks of a segment, joined with newlines in order, are the
\* segment: the same lines in the same order, none altered, repeated or lost.
C24_ChunkRoundTrip ==
  split_call.called
    => /\ join(<<NL>>, ChunkTexts(split_call.chunks)) = split_call.text
       /\ ChunkLines(split_call.chunks) = split(split_call.text, NL)

\* a segment was split into several chunks, one of them of several lines
C24_Witness ==
  /\ split_call.called
  /\ Len(split_call.chunks) >= 2
  /\ \E i \in 1..Len(split_call.chunks) :
       Len(split(split_call.chunks[i][1], NL)) >= 2

\* C25: the chunks of a segment longer than the limit are each at most the
\* limit long, unless the chunk is one line that is itself longer; every
\* chunk holds whole lines of the segment, at least one.
C25_ChunkSizeBound ==
  (split_call.called /\ Len(split_call.text) > split_call.limit)
    => /\ \A i \in 1..Len(split_call.chunks) :
            LET chunk == split_call.chunks[i][1]
            IN  /\ \/ Len(chunk) <= split_call.limit
                   \/ Len(split(chunk, NL)) = 1
                /\ Len(split(chunk, NL)) >= 1
       /\ ChunkLines(split_call.chunks) = split(split_call.text, NL)
       /\ Len(split_call.chunks) <= Len(split(split_call.text, NL))

\* a split produced a chunk of two lines within the limit and a chunk of one
\* line longer than the limit
C25_Witness ==
  /\ split_call.called
  /\ Len(split_call.text) > split_call.limit
  /\ \E i \in 1..Len(split_call.chunks) :
       /\ Len(split(split_call.chunks[i][1], NL)) = 2
       /\ Len(split_call.chunks[i][1]) <= split_call.limit
  /\ \E i \in 1..Len(split_call.chunks) :
       /\ Len(split(split_call.chunks[i][1], NL)) = 1
       /\ Len(split_call.chunks[i][1]) > split_call.limit

\* the file left as it was when a run begins after one file was edited on top
\* of a run that embedded every batch
UnchangedFile(kind) == IF kind = "edited_a" THEN PathB ELSE PathA

BelongsTo(key, p) == startswith(key, p \o Colons)

\* C23: in a run that follows a fully embedded run and the edit of one file,
\* no chunk of the other file is enqueued, and the store entries of the other
\* file keep their hash and vector at every step of the run.
C23_UnchangedUntouched ==
  [][ /\ (pc' = "scanned" /\ run_kind' \in {"edited_a", "edited_b"})
           => \A pair \in Enqueued' :
                ~BelongsTo(pair[1], UnchangedFile(run_kind'))
      /\ (run_kind \in {"edited_a", "edited_b"})
           => \A i \in 1..Len(index) :
                BelongsTo(index[i].key, UnchangedFile(run_kind))
                  => /\ Has(index', index[i].key)
                     /\ Get(index', index[i].key).hash = index[i].hash
                     /\ Get(index', index[i].key).vector = index[i].vector ]_vars

\* C27: a batch the service answered with one vector too few is a failed
\* batch: its worker returns no result, so nothing of it is merged.
C27_CountMismatchFails ==
  \A i \in 1..Len(futures) :
    futures[i].outcome = "short" => futures[i].result = <<>>

\* the chunks of file p, as run_indexing cuts them
FileChunks(p) == smart_chunk(files[p].text, ChunkLimit)

\* the processing of file p raises at one of its chunks
FileRaises(p) ==
  /\ files[p].readable
  /\ \E j \in 1..Len(FileChunks(p)) :
       LET clean_text == sanitize_content(FileChunks(p)[j][1])
       IN  /\ clean_text # <<>>
           /\ LookupRaises(index, p \o FileChunks(p)[j][2], get_file_hash(clean_text))

Failing(p) == ~files[p].readable \/ FileRaises(p)

Sound(p) == ~Failing(p)

\* C28: after the scan, no pair of a file that could not be read or processed
\* is in a batch, and the batches are those of a scan of the other files alone.
C28_ScanErrorIsolation ==
  pc = "scanned"
    => /\ \A pair \in Enqueued : \A p \in DOMAIN files :
            Failing(p) => ~BelongsTo(pair[1], p)
       /\ tasks = scan_tasks(SelectSeq(walk_files, Sound), files, index, dimension)

\* the pairs file p adds to the batches: its non-empty chunks that are not up
\* to date, up to the chunk whose lookup raises
RECURSIVE PendingChunks(_, _)
PendingChunks(chunks, p) ==
  IF chunks = <<>> THEN <<>>
  ELSE LET clean_text == sanitize_content(Head(chunks)[1])
           full_path == p \o Head(chunks)[2]
           new_hash == get_file_hash(clean_text)
       IN  IF clean_text = <<>> THEN PendingChunks(Tail(chunks), p)
           ELSE IF LookupRaises(index, full_path, new_hash) THEN <<>>
           ELSE IF IsUpToDate(index, full_path, new_hash, dimension)
           THEN PendingChunks(Tail(chunks), p)
           ELSE << <<full_path, clean_text>> >> \o PendingChunks(Tail(chunks), p)

\* the pending pairs of a run, in scan order
Pending ==
  Flatten([i \in 1..Len(walk_files) |->
             IF files[walk_files[i]].readable
             THEN PendingChunks(FileChunks(walk_files[i]), walk_files[i])
             ELSE <<>>])

\* C30: after the scan the batches, one after the other, are the pending pairs
\* in scan order; no batch is empty or holds more than BATCH_SIZE pairs, and
\* every batch but the last holds exactly BATCH_SIZE.
C30_BatchingPartition ==
  pc = "scanned"
    => /\ Flatten(tasks) = Pending
       /\ \A i \in 1..Len(tasks) :
            /\ tasks[i] # <<>>
            /\ Len(tasks[i]) <= BATCH_SIZE
            /\ i < Len(tasks) => Len(tasks[i]) = BATCH_SIZE

\* a scan in which the first file raised after some of its chunks were taken
\* left a full batch and a shorter last one
C30_Witness ==
  /\ pc = "scanned"
  /\ FileRaises(PathA)
  /\ \E pair \in Enqueued : BelongsTo(pair[1], PathA)
  /\ Len(tasks) = 2
  /\ Len(tasks[2]) < BATCH_SIZE

\* the states a future goes through, in order
FutureRank(f) ==
  IF f.state = "pending" THEN 0
  ELSE IF f.state = "running" THEN 1
  ELSE IF ~f.consumed THEN 2 ELSE 3

\* the step that leaves the as_completed loop for the final save
FinalSave == pc = "merge" /\ pc' = "save" /\ ret' = "idle"

\* C31: a run that submitted its batches reaches its final save_index and
\* returns; until then every batch goes once from pending to running to done
\* to consumed, and all of them are consumed when the final save begins.
C31_RunCompletes ==
  /\ [][ /\ pc = "merge" /\ ~FinalSave
           => /\ Len(futures') = Len(futures)
              /\ \A i \in 1..Len(futures) :
                   /\ FutureRank(futures'[i]) \in
                        {FutureRank(futures[i]), FutureRank(futures[i]) + 1}
                   /\ futures[i].state = "done"
                        => futures'[i].result = futures[i].result
         /\ FinalSave => \A i \in 1..Len(futures) : FutureRank(futures[i]) = 3 ]_vars
  /\ (pc = "merge") ~> (pc = "save" /\ ret = "idle")
  /\ (pc = "scanned") ~> (pc = "idle")

\* a run of two batches has consumed both and stands before its final save
C31_Witness ==
  /\ pc = "merge"
  /\ Len(futures) = 2
  /\ \A i \in 1..Len(futures) : futures[i].consumed
  /\ \E i \in 1..Len(futures) : futures[i].outcome = "raise"

\* the positions at which two line sequences of the same length differ
EditedLines(before, after) == {e \in 1..Len(before) : before[e] # after[e]}

\* the number of lines in the chunks before chunk k
RECURSIVE LinesBefore(_, _)
LinesBefore(chunks, k) ==
  IF k <= 1 THEN 0
  ELSE LinesBefore(chunks, k - 1) + Len(split(chunks[k - 1][1], NL))

\* chunk k of chunks holds line e of the segment
Contains(chunks, k, e) ==
  /\ LinesBefore(chunks, k) < e
  /\ e <= LinesBefore(chunks, k) + Len(split(chunks[k][1], NL))

\* C32: when two calls with the same limit differ in one line of the text,
\* every chunk of either call that does not hold that line is a chunk of the
\* other call too, with the same suffix and the same text.
C32_EditLocality ==
  [][ ( /\ split_call.called
        /\ split_call'.called
        /\ split_call'.limit = split_call.limit
        /\ Len(split(split_call'.text, NL)) = Len(split(split_call.text, NL))
        /\ Cardinality(EditedLines(split(split_call.text, NL),
                                   split(split_call'.text, NL))) = 1 )
        => \A e \in EditedLines(split(split_call.text, NL),
                                split(split_call'.text, NL)) :
             /\ \A k \in 1..Len(split_call.chunks) :
                  ~Contains(split_call.chunks, k, e)
                    => \E m \in 1..Len(split_call'.chunks) :
                         split_call'.chunks[m] = split_call.chunks[k]
             /\ \A m \in 1..Len(split_call'.chunks) :
                  ~Contains(split_call'.chunks, m, e)
                    => \E k \in 1..Len(split_call.chunks) :
                         split_call.chunks[k] = split_call'.chunks[m] ]_vars

\* the derived caches are the key list and the stacked vectors of the store
CacheCoherent ==
  /\ _paths_cache.value = [i \in 1..Len(index) |-> index[i].key]
  /\ _matrix_cache.value = [i \in 1..Len(index) |-> index[i].vector.values]

\* C36: between operations, whenever a search would score against the caches
\* (the store is not empty and both are set) they are the key list and the
\* vectors of the current store; and every result of a search has a key of the
\* store, with the score of that key's current vector.
C36_SearchCoherentCache ==
  /\ []((pc = "idle" /\ index # <<>> /\ _matrix_cache.set /\ _paths_cache.set)
          => CacheCoherent)
  /\ [][ (SearchStep /\ ~search_call'.failed)
           => \A q_vec \in {Take(EmbedValues(search_call'.query, dimension), dimension)} :
              \A i \in 1..Len(search_call'.results) :
                /\ Has(index, search_call'.results[i].path)
                /\ search_call'.results[i].score
                     = cosine(Get(index, search_call'.results[i].path).vector.values,
                              q_vec) ]_vars

\* a search was served from caches built after three runs or resets
C36_Witness ==
  /\ search_call.called
  /\ search_call.results # <<>>
  /\ _matrix_cache.set
  /\ _paths_cache.set
  /\ pc = "idle"
  /\ ops = MaxOps

\* the store has the keys of the unpickled object, each with the same hash and
\* the same vector values
SameEntries(idx, obj) ==
  /\ \A i \in 1..Len(idx) : Has(obj, idx[i].key)
  /\ \A i \in 1..Len(obj) :
       /\ Has(idx, obj[i].key)
       /\ Get(idx, obj[i].key).hash = obj[i].hash
       /\ Get(idx, obj[i].key).vector.values = obj[i].vector.values

\* C37: between operations, when the dirty counter is 0 the store has the
\* entries of the snapshot on disk, or is empty when there is no readable
\* snapshot.
C37_DirtyCounterTracks ==
  (pc = "idle" /\ _unsaved_changes = 0)
    => IF snapshot.kind = "pickle"
       THEN SameEntries(index, snapshot.obj)
       ELSE index = <<>>

\* C34: a check of a pair that was added with success answers True.
C34_NoFalseNegatives ==
  (bloom_call.op = "check" /\ <<bloom_call.subreddit, bloom_call.item>> \in bloom_added)
    => bloom_call.result = TRUE

\* C40: in mock mode a check answers True only for a pair that was added.
C40_TenantIsolation ==
  (bloom_call.op = "check" /\ _mock_fallback.set /\ bloom_call.result = TRUE)
    => <<bloom_call.subreddit, bloom_call.item>> \in bloom_added

\* C33: a send_request call that returned a result or raised an RPC error got
\* the response the server wrote for that call's own request.
C33_ResponseRouting ==
  \A r \in 1..Len(requests) :
    requests[r].outcome.kind \in ResponseKinds => requests[r].outcome.answers = r

\* C38: every context in _pending_requests belongs to a send_request call
\* whose caller is still waiting for its response.
C38_NoPendingLeak ==
  \A i \in DOMAIN _pending_requests :
    _pending_requests[i] # NoContext
      => \E c \in Callers : /\ threads[c].r = _pending_requests[i]
                            /\ threads[c].pc = "waiting"

\* C35: get_bridge never returns a bridge it found dead; a dead cached bridge
\* is torn down, leaves the registry and, when the server can be started, is
\* replaced by a new bridge whose process runs (otherwise get_bridge raises
\* and the name has no bridge); no bridge is stored under two names; a live
\* cached bridge is returned as it is and no bridge is constructed.
C35_RegistryLiveness ==
  [][\A n \in ServerNames, o \in StartOutcomes :
       get_bridge(n, o) =>
         LET cached == _bridges[n]
             returned == registry_call'.returned
         IN /\ (cached # NoBridge /\ bridge_objs[cached].process = "running")
                 => /\ returned = cached
                    /\ bridge_objs' = bridge_objs
                    /\ _bridges' = _bridges
            /\ (cached # NoBridge /\ bridge_objs[cached].process # "running")
                 => /\ returned # cached
                    /\ bridge_objs'[cached]._shutdown_event
                    /\ _bridges'[n] # cached
                    /\ o = "ok" => /\ returned = Len(bridge_objs) + 1
                                   /\ _bridges'[n] = returned
                                   /\ Len(bridge_objs') = Len(bridge_objs) + 1
                                   /\ bridge_objs'[returned].process = "running"
                    /\ o = "raise" => /\ returned = NoBridge
                                      /\ _bridges'[n] = NoBridge
            /\ \A n1, n2 \in ServerNames :
                 (n1 # n2 /\ _bridges'[n1] # NoBridge)
                   => _bridges'[n1] # _bridges'[n2]]_vars

\* a dead cached bridge was replaced by a new one whose process runs
C35_Witness ==
  /\ registry_call.op = "get_bridge"
  /\ registry_call.cached # NoBridge
  /\ registry_call.started
  /\ bridge_objs[registry_call.cached]._shutdown_event
  /\ bridge_objs[registry_call.cached].process = "exited"
  /\ _bridges[registry_call.server_name] = registry_call.returned
  /\ bridge_objs[registry_call.returned].process = "running"

\* C39: the k-th request of a client has id k, and the line a _send_request
\* call returns from is the server's response to the request of that call.
C39_RequestResponsePairing ==
  /\ client_call.id = client_call.seq
  /\ (client_pc # "reading" /\ client_call.returned.type \notin {"none", "exception"})
       => /\ client_call.returned.type = "response"
          /\ client_call.returned.id = client_call.id

====
